---- MODULE Spec2Model ----
(***************************************************************************)
(* EAS_Listener: the alert lifecycle around the per-stream audio pipeline. *)
(*                                                                         *)
(* Tasks modelled: the per-stream decoder (audio.rs process_stream, with   *)
(* its reconnect loop in run_stream_task), the alert manager and the       *)
(* per-alert handler (alerts.rs), the 60 s sweeper (run_state_cleanup) and *)
(* the 120 s tone timers spawned by process_stream.                        *)
(*                                                                         *)
(* Time is the integer clock `now`, in seconds.  Every Utc::now() and      *)
(* Instant::now() of the code reads it.  A sleep ends from its deadline   *)
(* on, and its task runs before the clock has moved a whole further step.  *)
(*                                                                         *)
(* `hist` is a history variable: what the properties need to remember of   *)
(* past steps.  Each specification keeps the part of it that its           *)
(* properties read.                                                        *)
(*                                                                         *)
(* The recording registry.  main.rs and audio.rs declare it as             *)
(* Mutex<Option<RecordingState>>, alerts.rs uses it as                     *)
(* Mutex<HashMap<String, RecordingState>>.  It is modelled as the set of   *)
(* registered RecordingState records, and every call is read on that set:  *)
(*   contains_key(s) / remove(s)   the record with source_stream = s       *)
(*   insert(s, st)                 replaces the record of key s            *)
(*   is_none()                     nothing is registered                   *)
(*   *recorder = Some(st)          st is registered                        *)
(*   as_ref().is_some_and(p), take()   the record satisfying p, removed    *)
(* The NNNN broadcast carries the label of the stream that decoded the     *)
(* EndOfMessage, which is what alerts.rs compares against.                 *)
(***************************************************************************)
EXTENDS Integers, Sequences, FiniteSets, TLC

(* ----------------------------- bounds ---------------------------------- *)

\* the clock stops here
MaxTime == 300
\* ... and here where only the alert set is followed
MaxTimeAlerts == 120
\* ... and here, but for the timers then pending, where every recording is
\* followed to its end
MaxTimeLive == 60
\* one clock step, in seconds
TickStep == 60
\* StartOfMessage events decoded in one run
MaxSOM == 3
\* ... and where the recordings and the tone latch are followed
MaxSomRec == 2
\* ... and where every recording is followed to its end
MaxSomLive == 1
\* EndOfMessage events decoded in one run
MaxEOM == 1
\* alert tuples waiting in the mpsc queue (the code's capacity is 32)
MaxQueue == 2
\* reconnects of one stream in one run
MaxReconnect == 1
\* characters of an event code given to match_filter
MaxCodeLen == 2
\* rules of a filter list given to match_filter
MaxRules == 2
\* matchers of one of its rules
MaxMatchers == 2
\* body samples a writer is seen to consume: its count stays here once reached
MaxBody == 2048
\* modifications of the reload signal file in one run
MaxTouch == 3
\* failed connection attempts of one stream in one run
MaxFailures == 2
\* the clock stops here where the stream tasks are followed second by second
MaxTimeConn == 3
\* tone hits that follow the one that arms the detector
MaxArmedRun == 3
\* the sustained-tone counter is followed up to this many samples
\* the longest run of tone hits a detector is given
MaxHitRun == 258
\* the chunks a fetcher reads from its socket
MaxFetch == 258
MaxSamples == 360000

(* ------------------------ program constants ---------------------------- *)

TARGET_SAMPLE_RATE == 48000
NWR_TONE_MIN_DURATION == 5
NWR_TONE_RECORDING_DURATION == 120
SAME_TONE_SUPPRESSION_DURATION == 300
SAME_RECORDING_TIMEOUT == 300
SWEEP_INTERVAL == 60
CONSECUTIVE_HITS_REQUIRED == 8
U8_MAX == 255
ALERT_QUEUE_CAPACITY == 32
RELOAD_CAPACITY == 16
RECONNECT_BACKOFF == 1
BYTE_QUEUE_CAPACITY == 256
RECORDING_CHANNEL_CAPACITY == 32
NNNN_CAPACITY == 1

NoTime == 0 - 1
NoHeader == "none"
NoPath == [event |-> "none", ts |-> NoTime, label |-> "none", n |-> 0]

Streams == {"s1", "s2"}

(* The SAME headers the receiver decodes in the model.  The fields are the  *)
(* ones sameold parses from the text: event code, location codes, and the  *)
(* valid duration TTTT (hours, minutes) in seconds.                        *)
H_TOR == "ZCZC-WXR-TOR-039173+0001-2451830-KXYZ/NWS-"
H_SVA == "ZCZC-WXR-SVA-021111+0002-2451830-KXYZ/NWS-"
H_RWT == "ZCZC-WXR-RWT-000000+0000-2451830-KXYZ/NWS-"
H_TOA == "ZCZC-WXR-TOA-021111+0001-2451830-KXYZ/NWS-"
TONE_PLACEHOLDER == "ZCZC-WXR-??W-000000+0015-JJJHHMM-WAGSENDC-"

Headers == {H_TOR, H_SVA, H_RWT, H_TOA}

HeaderEvent(h) ==
    CASE h = H_TOR -> "TOR"
      [] h = H_SVA -> "SVA"
      [] h = H_RWT -> "RWT"
      [] h = H_TOA -> "TOA"
      [] OTHER -> "??W"

HeaderFips(h) ==
    CASE h = H_TOR -> <<"039173">>
      [] h = H_SVA -> <<"021111">>
      [] h = H_TOA -> <<"021111">>
      [] OTHER -> <<"000000">>

HeaderValidDuration(h) ==
    CASE h = H_TOR -> 60
      [] h = H_SVA -> 120
      [] h = H_RWT -> 0
      [] h = H_TOA -> 60
      [] OTHER -> 900

\* watched-FIPS sets a configuration file can give (empty items are dropped
\* by Config::from_config_json, so "" is never a member)
WatchedSets == { {}, {"039173"}, {"000000", "021111"} }

Range(f) == { f[i] : i \in DOMAIN f }

Min(a, b) == IF a < b THEN a ELSE b

VARIABLES
    now,                 \* the clock
    watched_fips,        \* config.watched_fips of the alert manager
    filters,             \* the installed FilterRule list (AppState, GLOBAL_FILTERS)
    should_relay,        \* config.should_relay
    alert_q,             \* mpsc channel decoder -> alert manager
    mgr,                 \* the alert manager's position and pending alert
    active_alerts,       \* AppState.active_alerts (a Vec)
    severe_day,          \* severe_day.txt exists
    rainy_day,           \* rainy_day.txt exists
    next_sweep,          \* next tick of run_state_cleanup's interval
    recording_state,     \* the registered RecordingState records
    writers,             \* the spawned WAV writer tasks, by the file they write
    handlers,            \* the spawned handle_recording_and_webhook tasks
    tone_timers,         \* the spawned 120 s tone tasks
    conn,                \* per stream: where run_stream_task is
    sleep_until,         \* per stream: the deadline of its tokio::time::sleep
    reload,              \* the reload handler, its files and its subscribers
    dec,                 \* per stream: the locals of process_stream
    fetchers,            \* per stream: the spawned fetcher tasks that are alive
    byte_q,              \* per stream: the byte channel of its connection
    monitoring,          \* per stream: StreamTelemetry.is_connected
    app_lock,            \* who holds the Mutex of the AppState
    stream_urls,         \* config.icecast_stream_urls, by stream
    hist                 \* history for the properties (not program state)

vars == << now, watched_fips, sleep_until, reload, filters, should_relay, alert_q, mgr, active_alerts, severe_day,
           rainy_day, next_sweep, recording_state, writers, handlers, tone_timers, conn, dec,
           fetchers, byte_q, monitoring, app_lock, stream_urls, hist >>

(* --------------------------- alerts.rs --------------------------------- *)

\* is_alert_relevant(alert_data, watched_fips): fips is alert_data.fips
IsAlertRelevant(fips, watched) ==
    IF watched = {} THEN TRUE
    ELSE IF "000000" \in watched \/ "" \in watched THEN TRUE
    ELSE IF \E i \in DOMAIN fips : fips[i] = "000000" THEN TRUE
    ELSE \E i \in DOMAIN fips : fips[i] \in watched

\* the EasAlertData the alert manager works with: the pretty-printer's output
\* when it succeeds (the fields of the header), else the fallback built from
\* the tuple the decoder sent, whose fips is vec![]
AlertData(msg, dsame_ok) ==
    IF dsame_ok
    THEN [event_code |-> HeaderEvent(msg.raw_header), fips |-> HeaderFips(msg.raw_header)]
    ELSE [event_code |-> msg.event, fips |-> << >>]

\* ActiveAlert::new at time t
ActiveAlertNew(data, raw_header, purge_time, t) ==
    [ raw_header  |-> raw_header,
      event_code  |-> data.event_code,
      fips        |-> data.fips,
      received_at |-> t,
      expires_at  |-> t + purge_time,
      purge_time  |-> purge_time ]

NoAlert == ActiveAlertNew([event_code |-> "none", fips |-> << >>], NoHeader, 0, NoTime)

\* variants of the retain predicate: without the raw_header test, and without
\* the expiry test
KeepOnInsert_NoHeaderTest(existing, t, raw_header) ==
    existing.expires_at > t

KeepOnInsert_NoExpiryTest(existing, t, raw_header) ==
    existing.raw_header # raw_header

\* the retain predicate of run_alert_manager
KeepOnInsert(existing, t, raw_header) ==
    existing.expires_at > t /\ existing.raw_header # raw_header

\* variant of the sweep's predicate that keeps an alert at its expiry time
KeepOnSweep_AtExpiry(alert, t) == alert.expires_at >= t

\* the retain predicate of run_state_cleanup
KeepOnSweep(alert, t) == alert.expires_at > t

\* variant of update_alert_files that looks at the moderate watch first
UpdateAlertFiles_WatchFirst(alerts) ==
    IF \E i \in DOMAIN alerts : alerts[i].event_code = "SVA" THEN << FALSE, TRUE >>
    ELSE IF \E i \in DOMAIN alerts : alerts[i].event_code \in {"SVR", "TOR", "TOA"}
         THEN << TRUE, FALSE >>
    ELSE << FALSE, FALSE >>

\* update_alert_files: the flag files it leaves, as << severe_day, rainy_day >>
\* (trim() leaves the three-letter codes of the model as they are)
UpdateAlertFiles(alerts) ==
    LET has_severe_warning == \E i \in DOMAIN alerts : alerts[i].event_code \in {"SVR", "TOR"}
        has_severe_watch   == \E i \in DOMAIN alerts : alerts[i].event_code = "TOA"
        has_moderate_watch == \E i \in DOMAIN alerts : alerts[i].event_code = "SVA"
    IN  IF has_severe_warning \/ has_severe_watch THEN << TRUE, FALSE >>
        ELSE IF has_moderate_watch THEN << FALSE, TRUE >>
        ELSE << FALSE, FALSE >>

\* a freshly spawned handle_recording_and_webhook
NewHandler(alert, stream) ==
    [ pc         |-> "start",
      stream     |-> stream,
      raw_header |-> alert.raw_header,
      event_code |-> alert.event_code,
      should_relay |-> should_relay,  \* of the config the manager cloned for it
      join       |-> NoPath,          \* join_handle, named by the file it writes
      recorded   |-> NoPath,          \* recorded_state, the path of the pair
      sent       |-> << >>,           \* the calls made so far to the collaborators
      deadline   |-> NoTime,
      nnnn       |-> << >>,           \* this receiver's unread broadcast messages
      lagged     |-> FALSE ]

\* run_alert_manager, from rx.recv() to the relevance decision
MgrRecv(dsame_ok) ==
    /\ mgr.pc = "idle"
    /\ alert_q # << >>
    /\ LET msg   == Head(alert_q)
           data  == AlertData(msg, dsame_ok)
           rel   == IsAlertRelevant(data.fips, watched_fips)
           alert == ActiveAlertNew(data, msg.raw_header, msg.purge_time, now)
       IN  /\ alert_q' = Tail(alert_q)
           /\ mgr' = IF rel THEN [pc |-> "insert", alert |-> alert, stream |-> msg.stream]
                            ELSE mgr
           /\ hist' = IF hist.keep # "alerts" THEN hist
                       ELSE [hist EXCEPT !.decision =
                               [raw_header |-> msg.raw_header, relevant |-> rel,
                                watched |-> watched_fips, dsame_ok |-> dsame_ok,
                                at |-> now]]
    /\ UNCHANGED << now, watched_fips, sleep_until, reload, filters, should_relay, writers, active_alerts, severe_day, rainy_day, next_sweep,
                    recording_state, handlers, tone_timers, conn, dec,
                    fetchers, byte_q, monitoring, app_lock, stream_urls >>

\* run_alert_manager, line 79, with get_eas_details_and_log, lines 322-334:
\* the manager has taken an alert and awaits Command::output() of a
\* pretty-printer that does not exit.  Nothing bounds the wait.
MgrRecvHang ==
    /\ mgr.pc = "idle"
    /\ alert_q # << >>
    /\ alert_q' = Tail(alert_q)
    /\ mgr' = [pc |-> "dsame", alert |-> NoAlert, stream |-> Head(alert_q).stream]
    /\ UNCHANGED << now, watched_fips, sleep_until, reload, filters, should_relay, writers,
                    active_alerts, severe_day, rainy_day, next_sweep, recording_state,
                    handlers, tone_timers, conn, dec, hist,
                    fetchers, byte_q, monitoring, app_lock, stream_urls >>

\* run_alert_manager, the critical section on the active-alert set and the
\* spawn of the handler, taken as one step
MgrInsert ==
    /\ mgr.pc = "insert"
    /\ app_lock = "none"
    /\ LET alert    == mgr.alert
           Keep(e)  == KeepOnInsert(e, now, alert.raw_header)
           \* Vec::retain keeps, in order, the elements its predicate accepts
           kept     == SelectSeq(active_alerts, Keep)
           after    == Append(kept, alert)
           flags    == UpdateAlertFiles(after)
       IN  /\ active_alerts' = after
           /\ severe_day' = flags[1]
           /\ rainy_day' = flags[2]
           /\ handlers' = Append(handlers, NewHandler(alert, mgr.stream))
           /\ hist' = IF hist.keep # "alerts" THEN hist
                       ELSE
                       [hist EXCEPT !.last_op = "insert",
                                   !.insertion =
                                      [ alert   |-> alert,
                                        at      |-> hist.decision.at,
                                        renewed |-> \E k \in DOMAIN active_alerts :
                                                      /\ active_alerts[k].raw_header = alert.raw_header
                                                      /\ active_alerts[k].received_at < alert.received_at,
                                        before  |-> Len(active_alerts),
                                        had     |-> \E k \in DOMAIN active_alerts :
                                                      active_alerts[k].raw_header = alert.raw_header,
                                        expired |-> Cardinality(
                                                      { k \in DOMAIN active_alerts :
                                                          /\ active_alerts[k].expires_at <= now
                                                          /\ active_alerts[k].raw_header # alert.raw_header }) ]]
    /\ mgr' = [pc |-> "idle", alert |-> NoAlert, stream |-> "none"]
    /\ UNCHANGED << now, watched_fips, sleep_until, reload, filters, should_relay, writers, alert_q, next_sweep, recording_state,
                    tone_timers, conn, dec,
                    fetchers, byte_q, monitoring, app_lock, stream_urls >>

\* the same critical section step by step.  Lines 98-104: the lock is
\* taken, the set is retained and the alert pushed; update_alert_files is
\* called with the guard
MgrInsertLock ==
    /\ mgr.pc = "insert"
    /\ app_lock = "none"
    /\ LET Keep(e) == KeepOnInsert(e, now, mgr.alert.raw_header)
       IN  active_alerts' = Append(SelectSeq(active_alerts, Keep), mgr.alert)
    /\ app_lock' = "manager"
    /\ mgr' = [mgr EXCEPT !.pc = "write"]
    /\ UNCHANGED << now, watched_fips, sleep_until, reload, filters, should_relay, writers,
                    alert_q, severe_day, rainy_day, next_sweep, recording_state, handlers,
                    tone_timers, conn, dec, fetchers, byte_q, monitoring, hist, stream_urls >>

\* update_alert_files, lines 379-399, up to its first file operation: the
\* flag files after `fs::write(..).await` of the file that is to exist
\* (after the removal of rainy_day.txt where none is to exist)
UpdateAlertFilesFirst(alerts, severe, rainy) ==
    LET flags == UpdateAlertFiles(alerts)
    IN  IF flags[1] THEN << TRUE, rainy >>
        ELSE IF flags[2] THEN << severe, TRUE >>
        ELSE << severe, FALSE >>

\* update_alert_files awaits its first file operation, the guard held
MgrFilesWrite ==
    /\ mgr.pc = "write"
    /\ LET flags == UpdateAlertFilesFirst(active_alerts, severe_day, rainy_day)
       IN  /\ severe_day' = flags[1]
           /\ rainy_day' = flags[2]
    /\ mgr' = [mgr EXCEPT !.pc = "remove"]
    /\ UNCHANGED << now, watched_fips, sleep_until, reload, filters, should_relay, writers,
                    alert_q, active_alerts, next_sweep, recording_state, handlers,
                    tone_timers, conn, dec, fetchers, byte_q, monitoring, app_lock, hist, stream_urls >>

\* update_alert_files removes the other file and returns; lines 105-125: the
\* guard is dropped and the handler spawned
MgrFilesRemove ==
    /\ mgr.pc = "remove"
    /\ LET flags == UpdateAlertFiles(active_alerts)
       IN  /\ severe_day' = flags[1]
           /\ rainy_day' = flags[2]
    /\ app_lock' = "none"
    /\ handlers' = Append(handlers, NewHandler(mgr.alert, mgr.stream))
    /\ mgr' = [pc |-> "idle", alert |-> NoAlert, stream |-> "none"]
    /\ UNCHANGED << now, watched_fips, sleep_until, reload, filters, should_relay, writers,
                    alert_q, active_alerts, next_sweep, recording_state, tone_timers, conn,
                    dec, fetchers, byte_q, monitoring, hist, stream_urls >>

\* run_state_cleanup, one tick of its interval
StateCleanup ==
    /\ now >= next_sweep
    /\ app_lock = "none"
    /\ LET Keep(a)       == KeepOnSweep(a, now)
           kept          == SelectSeq(active_alerts, Keep)
           removed_count == Len(active_alerts) - Len(kept)
           flags         == UpdateAlertFiles(kept)
       IN  /\ active_alerts' = kept
           /\ severe_day' = IF removed_count > 0 THEN flags[1] ELSE severe_day
           /\ rainy_day' = IF removed_count > 0 THEN flags[2] ELSE rainy_day
    /\ next_sweep' = next_sweep + SWEEP_INTERVAL
    /\ hist' = IF hist.keep # "alerts" THEN hist
               ELSE [hist EXCEPT !.last_op = "sweep",
                                 !.removed = Len(active_alerts)
                                               - Len(SelectSeq(active_alerts,
                                                       LAMBDA a : KeepOnSweep(a, now)))]
    /\ UNCHANGED << now, watched_fips, sleep_until, reload, filters, should_relay, writers, alert_q, mgr, recording_state, handlers,
                    tone_timers, conn, dec,
                    fetchers, byte_q, monitoring, app_lock, stream_urls >>

(* -------------------------- recording.rs ------------------------------- *)

\* the ASCII letters
LowerLetters == << "a", "b", "c", "d", "e", "f", "g", "h", "i", "j", "k", "l", "m",
                   "n", "o", "p", "q", "r", "s", "t", "u", "v", "w", "x", "y", "z" >>

UpperLetters == << "A", "B", "C", "D", "E", "F", "G", "H", "I", "J", "K", "L", "M",
                   "N", "O", "P", "Q", "R", "S", "T", "U", "V", "W", "X", "Y", "Z" >>

\* u8::to_ascii_uppercase on one character
ToAsciiUppercase(c) ==
    IF \E k \in DOMAIN LowerLetters : LowerLetters[k] = c
    THEN UpperLetters[CHOOSE k \in DOMAIN LowerLetters : LowerLetters[k] = c]
    ELSE c

\* a stream URL: the host, and the stem and the extension of the last
\* segment of its path (the characters of the stem are alphanumeric)
UrlOne == [host |-> "one", stem |-> << "s", "1" >>, ext |-> "mp3"]
UrlTwo == [host |-> "two", stem |-> << "s", "2" >>, ext |-> "mp3"]
UrlTwoAlike == [host |-> "two", stem |-> << "S", "1" >>, ext |-> "mp3"]

\* sanitize_filename_label on alphanumeric characters: each is pushed in
\* upper case, and there is no `_` to trim
SanitizeFilenameLabel(label) == [k \in DOMAIN label |-> ToAsciiUppercase(label[k])]

\* stream_label_from_source: the last path segment without its extension,
\* sanitized
StreamLabelFromSource(url) == SanitizeFilenameLabel(url.stem)

\* event_code_from_header: the third dash-separated field, through
\* sanitize_filename_label (`?` becomes `_`, outer `_` are trimmed)
EventCodeFromHeader(h) ==
    CASE h = H_TOR -> "TOR"
      [] h = H_SVA -> "SVA"
      [] h = H_RWT -> "RWT"
      [] h = H_TOA -> "TOA"
      [] h = TONE_PLACEHOLDER -> "W"
      [] OTHER -> "UNK"

\* the files of the recording directory: a writer task creates its file as
\* it starts (WavWriter::create, line 67) and the file is there until the
\* task removes it (line 96)
Exists(path) == \E w \in writers : w.path = path /\ w.file

\* next_available_recording_path: the loop from `index` on
RECURSIVE NextAvailableRecordingPath(_, _, _, _)
NextAvailableRecordingPath(event_code, timestamp, stream_label, index) ==
    LET candidate == [event |-> event_code, ts |-> timestamp, label |-> stream_label,
                      n |-> index]
    IN  IF ~Exists(candidate) THEN candidate
        ELSE NextAvailableRecordingPath(event_code, timestamp, stream_label, index + 1)

\* start_encoding_task_with_timestamp: the RecordingState it returns.  The
\* header the writer was given and what started it are kept with the record.
StartEncodingTask(header_text, source_stream, timestamp, reason) ==
    [ source_stream |-> source_stream,
      output_path   |-> NextAvailableRecordingPath(
                           EventCodeFromHeader(header_text), timestamp,
                           StreamLabelFromSource(stream_urls[source_stream]), 0),
      header        |-> header_text,
      reason        |-> reason ]

\* header::generate_same_header_samples(text, 48000, 0.79).len(): the samples
\* of the AFSK rendering of a text of nchars characters.  Section 4.3 of the
\* specification gives the rate (520.83 baud) and the glossary the framing
\* (three bursts of the text); eight bits a character.  The preamble and the
\* pauses between the bursts only add to the count.
SameToneSamples(nchars) == 3 * ((nchars * 8 * TARGET_SAMPLE_RATE * 100) \div 52083)

\* the writer task it spawns (lines 59-103), named by its file: the file is
\* created, the header tones are written and the task waits on its channel.
\* `body` is the number of samples it has taken from the channel, `chan`
\* the lengths of the chunks that wait in the channel, and `held` says that
\* the task is in write_sample, not in blocking_recv.
SpawnWriter(st) ==
    [ path   |-> st.output_path,
      header |-> st.header,
      st     |-> "open",
      body   |-> 0,
      chan   |-> << >>,
      held   |-> FALSE,
      file   |-> TRUE ]

\* the writer task as tokio::spawn returns (line 59), where it has not yet
\* been polled: no file is there
SpawnedWriter(st) == [SpawnWriter(st) EXCEPT !.st = "spawned", !.file = FALSE]

\* the spawned task is polled, lines 60-74: WavWriter::create makes (or
\* truncates) the file and the header tones are being written
WriterCreate(path) ==
    /\ \E w \in writers : w.path = path /\ w.st = "spawned"
    /\ writers' = { IF w.path = path
                    THEN [w EXCEPT !.st = "open", !.file = TRUE, !.held = TRUE]
                    ELSE w : w \in writers }
    /\ UNCHANGED << now, watched_fips, sleep_until, reload, filters, should_relay, alert_q, mgr,
                    active_alerts, severe_day, rainy_day, next_sweep, recording_state,
                    handlers, tone_timers, conn, dec, fetchers, byte_q, monitoring,
                    app_lock, stream_urls, hist >>

\* lines 76-89: samples_written as the blocking part returns it
SamplesWritten(w) == SameToneSamples(Len(w.header)) + w.body + SameToneSamples(4)

\* lines 95-100: is the file left in place
FileKept(w) == SamplesWritten(w) # 0

\* variant of the send that always finds room
TrySendSamples_Unbounded(chan, len) == Append(chan, len)

\* tokio try_send on the channel of line 57 while its receiver lives: Full
\* hands the chunk back and the channel is as it was
TrySendSamples(chan, len) ==
    IF Len(chan) >= RECORDING_CHANNEL_CAPACITY THEN chan ELSE Append(chan, len)

\* lines 78-83, with audio.rs 524: a chunk of len samples is offered to the
\* channels of the recordings `targets`.  A writer that waits in
\* blocking_recv takes the chunk as it comes; behind a writer that is held
\* in write_sample the chunk stays in the channel, if there is room; a
\* writer that has failed has closed its end and the chunk is lost.
Consume(ws, targets, len) ==
    { IF w.path \in targets /\ w.st \in {"open", "spawned"}
      THEN IF w.st = "open" /\ ~w.held /\ w.chan = << >>
           THEN [w EXCEPT !.body = Min(w.body + len, MaxBody)]
           ELSE [w EXCEPT !.chan = TrySendSamples(@, len)]
      ELSE w : w \in ws }

\* what try_send of audio.rs 524 returns for the recording `path`
TrySendResult(ws, path) ==
    LET w == CHOOSE x \in ws : x.path = path
    IN  CASE w.st \notin {"open", "spawned"} -> "closed"
          [] (w.st = "spawned" \/ w.held \/ w.chan # << >>) /\ Len(w.chan) >= RECORDING_CHANNEL_CAPACITY -> "full"
          [] OTHER -> "ok"

\* the writer task, line 80: write_sample does not return at once (the
\* disk is slow) and the task is not back at blocking_recv
WriterHeld(path) ==
    /\ \E w \in writers : w.path = path /\ w.st = "open" /\ ~w.held
    /\ writers' = { IF w.path = path THEN [w EXCEPT !.held = TRUE] ELSE w : w \in writers }
    /\ UNCHANGED << now, watched_fips, sleep_until, reload, filters, should_relay, alert_q, mgr,
                    active_alerts, severe_day, rainy_day, next_sweep, recording_state,
                    handlers, tone_timers, conn, dec, fetchers, byte_q, monitoring, hist, app_lock, stream_urls >>

\* the writer task, lines 78-83: a held writer is back at blocking_recv and
\* takes the oldest chunk of the channel, or finds the channel empty
WriterTake(path) ==
    /\ \E w \in writers : w.path = path /\ w.st = "open" /\ w.held
    /\ writers' = { IF w.path = path
                    THEN IF w.chan = << >> THEN [w EXCEPT !.held = FALSE]
                         ELSE [w EXCEPT !.body = Min(w.body + Head(w.chan), MaxBody),
                                        !.chan = Tail(w.chan)]
                    ELSE w : w \in writers }
    /\ UNCHANGED << now, watched_fips, sleep_until, reload, filters, should_relay, alert_q, mgr,
                    active_alerts, severe_day, rainy_day, next_sweep, recording_state,
                    handlers, tone_timers, conn, dec, fetchers, byte_q, monitoring, hist, app_lock, stream_urls >>

\* the channel of a writer is closed when every sender is dropped: the one
\* of the registered RecordingState (the decoder's clone lives for one send)
ChannelClosed(path) == ~\E r \in recording_state : r.output_path = path

\* the writer task, lines 78-102: blocking_recv returns None, the NNNN tail
\* is written, the file finalized and kept or removed; the task returns Ok
WriterFinish(path) ==
    /\ \E w \in writers : w.path = path /\ w.st = "open" /\ ~w.held /\ w.chan = << >>
    /\ ChannelClosed(path)
    /\ writers' = { IF w.path = path
                    THEN [w EXCEPT !.st = "done", !.file = FileKept(w)]
                    ELSE w : w \in writers }
    /\ UNCHANGED << now, watched_fips, sleep_until, reload, filters, should_relay, alert_q, mgr, active_alerts,
                    severe_day, rainy_day, next_sweep, recording_state, handlers,
                    tone_timers, conn, dec, hist,
                    fetchers, byte_q, monitoring, app_lock, stream_urls >>

\* the writer task, lines 72-93: a write_sample or finalize fails and the
\* task returns the error; the receiver is dropped and the file stays
WriterFail(path) ==
    /\ \E w \in writers : w.path = path /\ w.st = "open"
    /\ writers' = { IF w.path = path THEN [w EXCEPT !.st = "failed"] ELSE w : w \in writers }
    /\ UNCHANGED << now, watched_fips, sleep_until, reload, filters, should_relay, alert_q, mgr, active_alerts,
                    severe_day, rainy_day, next_sweep, recording_state, handlers,
                    tone_timers, conn, dec, hist,
                    fetchers, byte_q, monitoring, app_lock, stream_urls >>

\* the registry calls, on the set of registered records
ContainsKey(reg, s) == \E r \in reg : r.source_stream = s
Insert(reg, s, st)  == { r \in reg : r.source_stream # s } \cup { st }
Remove(reg, s)      == { r \in reg : r.source_stream # s }
IsNone(reg)         == reg = {}
Register(reg, st)   == reg \cup { st }
Matches(r, s, path) == r.source_stream = s /\ r.output_path = path
\* variant of take() that leaves the record registered
Take_Nothing(reg, s, path) == reg

Take(reg, s, path)  == { r \in reg : ~Matches(r, s, path) }

(* ----------------------------- filter.rs ------------------------------- *)

\* An event code is the sequence of its characters.  A FilterRule is
\* [name, action, matchers]; a matcher is Wildcard or Exact(expected).
FilterActions == {"Ignore", "Relay", "Log", "Forward"}

Wildcard == [kind |-> "Wildcard", expected |-> << >>]

Exact(expected) == [kind |-> "Exact", expected |-> expected]

\* str::make_ascii_uppercase
MakeAsciiUppercase(code) == [k \in DOMAIN code |-> ToAsciiUppercase(code[k])]

IsWhitespace(c) == c \in {" ", "\t", "\n"}

RECURSIVE TrimStart(_)
TrimStart(code) ==
    IF code # << >> /\ IsWhitespace(Head(code)) THEN TrimStart(Tail(code)) ELSE code

RECURSIVE TrimEnd(_)
TrimEnd(code) ==
    IF code # << >> /\ IsWhitespace(code[Len(code)])
    THEN TrimEnd(SubSeq(code, 1, Len(code) - 1))
    ELSE code

\* str::trim
Trim(code) == TrimEnd(TrimStart(code))

\* variant of normalize_event_code that leaves the case as it is
NormalizeEventCode_KeepCase(code) == Trim(code)

\* normalize_event_code
NormalizeEventCode(code) == MakeAsciiUppercase(Trim(code))

\* FilterRule::matches
RuleMatches(rule, normalized_code) ==
    \E k \in DOMAIN rule.matchers :
        IF rule.matchers[k].kind = "Wildcard" THEN TRUE
        ELSE rule.matchers[k].expected = normalized_code

\* Iterator::find over the rules from position k on: the position of the
\* first rule that matches, 0 for None
RECURSIVE FindRule(_, _, _)
FindRule(rules, normalized, k) ==
    IF k > Len(rules) THEN 0
    ELSE IF RuleMatches(rules[k], normalized) THEN k
    ELSE FindRule(rules, normalized, k + 1)

\* match_filter: the position of the rule it returns, 0 for None
MatchFilter(rules, event_code) == FindRule(rules, NormalizeEventCode(event_code), 1)

\* evaluate_action
EvaluateAction(rules, event_code) ==
    LET m == MatchFilter(rules, event_code)
    IN  IF m # 0 THEN rules[m].action ELSE "Relay"

\* determine_filter_name
DetermineFilterName(rules, event_code) ==
    LET m == MatchFilter(rules, event_code)
    IN  IF m # 0 THEN rules[m].name ELSE "Default Filter"

\* should_relay_alert
ShouldRelayAlert(rules, event_code) ==
    LET m == MatchFilter(rules, event_code)
    IN  IF m # 0 THEN rules[m].action # "Ignore" ELSE TRUE

\* variant of should_log_alert that does not log for the Log action
ShouldLogAlert_RelayOnly(rules, event_code) ==
    LET m == MatchFilter(rules, event_code)
    IN  IF m # 0 THEN rules[m].action = "Relay" ELSE FALSE

\* variant of should_log_alert that does not log for the Relay action
ShouldLogAlert_LogOnly(rules, event_code) ==
    LET m == MatchFilter(rules, event_code)
    IN  IF m # 0 THEN rules[m].action = "Log" ELSE FALSE

\* should_log_alert
ShouldLogAlert(rules, event_code) ==
    LET m == MatchFilter(rules, event_code)
    IN  IF m # 0 THEN rules[m].action = "Log" \/ rules[m].action = "Relay" ELSE FALSE

\* should_forward_alert
ShouldForwardAlert(rules, event_code) ==
    LET m == MatchFilter(rules, event_code)
    IN  IF m # 0 THEN rules[m].action = "Forward" ELSE FALSE

\* the characters of the event codes of the model's headers
CodeChars(code) ==
    CASE code = "TOR" -> << "T", "O", "R" >>
      [] code = "SVA" -> << "S", "V", "A" >>
      [] code = "RWT" -> << "R", "W", "T" >>
      [] code = "TOA" -> << "T", "O", "A" >>
      [] code = "??W" -> << "?", "?", "W" >>
      [] OTHER -> << "?" >>

(* ------------------------------ relay.rs ------------------------------- *)

\* variant of start_relay that relays whatever the matched action is
StartRelayProceeds_Always(rules, event_code) == TRUE

\* RelayState::start_relay, lines 93-129: does it go on to relay the segment
StartRelayProceeds(rules, event_code) ==
    LET m      == MatchFilter(rules, event_code)
        action == IF m # 0 THEN rules[m].action ELSE "Relay"
    IN  CASE action = "Ignore"  -> FALSE
          [] action = "Log"     -> FALSE
          [] action = "Relay"   -> TRUE
          [] action = "Forward" -> FALSE

\* the filter name start_relay logs
StartRelayFilterName(rules, event_code) ==
    LET m == MatchFilter(rules, event_code)
    IN  IF m # 0 THEN rules[m].name ELSE "Default Filter"

(* ----------------- alerts.rs: handle_recording_and_webhook ------------- *)

\* variant of the handler's test that starts a recording whatever is
\* registered for the stream
HandlerMayRecord_Always(reg, s) == TRUE

\* does the handler try to start a recording (the guard of the insert)
HandlerMayRecord(reg, s) == ~ContainsKey(reg, s)

\* lines 162-173: look at the stream's slot, start and register a recording;
\* `created` says whether the spawned writer task has made its file by the
\* time the handler lets go of the registry
HandlerStartAt(i, start_ok, created) ==
    /\ i \in DOMAIN handlers
    /\ handlers[i].pc = "start"
    /\ LET h  == handlers[i]
           st == StartEncodingTask(h.raw_header, h.stream, now, "same")
       IN  IF HandlerMayRecord(recording_state, h.stream) /\ start_ok
           THEN /\ recording_state' = Insert(recording_state, h.stream, st)
                /\ writers' = writers \cup
                                 { IF created THEN SpawnWriter(st) ELSE SpawnedWriter(st) }
                /\ handlers' = [handlers EXCEPT ![i].pc = "wait",
                                                ![i].join = st.output_path,
                                                ![i].deadline = now + SAME_RECORDING_TIMEOUT]
           ELSE /\ recording_state' = recording_state
                /\ writers' = writers
                /\ handlers' = [handlers EXCEPT ![i].pc = "dispatch"]
    /\ hist' = [hist EXCEPT !.start =
                  [ stream   |-> handlers[i].stream,
                    saw_tone |-> \E r \in recording_state :
                                    r.source_stream = handlers[i].stream /\ r.reason = "tone",
                    saw_same |-> \E r \in recording_state :
                                    r.source_stream = handlers[i].stream /\ r.reason = "same" ]]
    /\ UNCHANGED << now, watched_fips, sleep_until, reload, filters, should_relay, alert_q, mgr, active_alerts,
                    severe_day, rainy_day, next_sweep, tone_timers, conn, dec,
                    fetchers, byte_q, monitoring, app_lock, stream_urls >>

\* the same where the writer task runs as soon as it is spawned
HandlerStart(i, start_ok) == HandlerStartAt(i, start_ok, TRUE)

\* lines 185-188: the 300 s deadline
HandlerTimeout(i) ==
    /\ i \in DOMAIN handlers
    /\ handlers[i].pc = "wait"
    /\ now >= handlers[i].deadline
    /\ handlers' = [handlers EXCEPT ![i].pc = "stop"]
    /\ UNCHANGED << now, watched_fips, sleep_until, reload, filters, should_relay, writers, alert_q, mgr, active_alerts, severe_day, rainy_day,
                    next_sweep, recording_state, tone_timers, conn, dec, hist,
                    fetchers, byte_q, monitoring, app_lock, stream_urls >>

\* lines 189-204: one nnnn_rx.recv()
HandlerNnnn(i) ==
    /\ i \in DOMAIN handlers
    /\ handlers[i].pc = "wait"
    /\ LET h == handlers[i]
       IN  IF h.lagged
           THEN handlers' = [handlers EXCEPT ![i].lagged = FALSE]
           ELSE /\ h.nnnn # << >>
                /\ handlers' = [handlers EXCEPT
                                  ![i].nnnn = Tail(h.nnnn),
                                  ![i].pc = IF Head(h.nnnn) = h.stream THEN "stop" ELSE "wait"]
    /\ UNCHANGED << now, watched_fips, sleep_until, reload, filters, should_relay, writers, alert_q, mgr, active_alerts, severe_day, rainy_day,
                    next_sweep, recording_state, tone_timers, conn, dec, hist,
                    fetchers, byte_q, monitoring, app_lock, stream_urls >>

\* lines 210-223: remove the stream's RecordingState, drop its sink and keep
\* its path as recorded_state
HandlerStop(i) ==
    /\ i \in DOMAIN handlers
    /\ handlers[i].pc = "stop"
    /\ recording_state' = Remove(recording_state, handlers[i].stream)
    /\ handlers' = [handlers EXCEPT
                      ![i].pc = "dispatch",
                      ![i].recorded =
                         IF ContainsKey(recording_state, handlers[i].stream)
                         THEN (CHOOSE r \in recording_state :
                                  r.source_stream = handlers[i].stream).output_path
                         ELSE NoPath]
    /\ UNCHANGED << now, watched_fips, sleep_until, reload, filters, should_relay, writers, alert_q, mgr, active_alerts, severe_day, rainy_day,
                    next_sweep, tone_timers, conn, dec, hist,
                    fetchers, byte_q, monitoring, app_lock, stream_urls >>

\* one call of send_alert_webhook: the notification and the filter name in
\* its body (build_discord_embed_body reads the code from raw_header[9..12])
Notification(h) ==
    [ kind        |-> "notify",
      filter_name |-> DetermineFilterName(filters, CodeChars(HeaderEvent(h.raw_header))),
      path        |-> h.recorded ]

\* start_relay going on to relay the recorded segment
RelayStarted(h) ==
    [ kind        |-> "relay",
      filter_name |-> StartRelayFilterName(filters, CodeChars(h.event_code)),
      path        |-> h.recorded ]

\* what a handler leaves behind as it returns
Dispatched(h, sent) ==
    [ raw_header |-> h.raw_header,
      event_code |-> h.event_code,
      stream     |-> h.stream,
      join       |-> h.join,
      recorded   |-> h.recorded,
      sent       |-> sent ]

\* the running handlers without the i-th
WithoutHandler(i) ==
    [k \in 1 .. Len(handlers) - 1 |-> IF k < i THEN handlers[k] ELSE handlers[k + 1]]

\* variant of the await of line 225 that does not wait
WriterAwaited_NoWait(ws, join) == TRUE

\* line 225, handle.await (and audio.rs 680): the writer task of the join
\* handle has returned, with Ok or with its error
WriterAwaited(ws, join) ==
    join = NoPath \/ \E w \in ws : w.path = join /\ w.st \in {"done", "failed"}

\* the history of a handler: the filter list that should_log_alert and
\* should_forward_alert read (GLOBAL_FILTERS, lines 230 and 242) ...
SawNotifyFilters(h, list) ==
    IF h.keep # "snap" THEN h ELSE [h EXCEPT !.notify_filters = [taken |-> TRUE, filters |-> list]]

\* ... and the one cloned_filters gave it for start_relay (lines 258-261)
SawRelayFilters(h, list) ==
    IF h.keep # "snap" THEN h ELSE [h EXCEPT !.relay_filters = [taken |-> TRUE, filters |-> list]]

\* lines 225-256: the writer is awaited, then the notification for a logged
\* and for a forwarded alert.  The task returns after forwarding, and where
\* relaying is off.
HandlerDispatch(i) ==
    /\ i \in DOMAIN handlers
    /\ handlers[i].pc = "dispatch"
    /\ WriterAwaited(writers, handlers[i].join)
    /\ LET h       == handlers[i]
           code    == CodeChars(h.event_code)
           logged  == IF ShouldLogAlert(filters, code) THEN << Notification(h) >> ELSE << >>
           forward == ShouldForwardAlert(filters, code)
           sent    == IF forward THEN Append(logged, Notification(h)) ELSE logged
       IN  IF forward \/ ~h.should_relay
           THEN /\ handlers' = WithoutHandler(i)
                /\ hist' = IF hist.keep # "dispatch" THEN SawNotifyFilters(hist, filters)
                           ELSE [hist EXCEPT !.done = Dispatched(h, sent)]
           ELSE /\ handlers' = [handlers EXCEPT ![i].pc = "relay", ![i].sent = sent]
                /\ hist' = SawNotifyFilters(hist, filters)
    /\ UNCHANGED << now, watched_fips, sleep_until, reload, filters, should_relay, writers, alert_q, mgr, active_alerts,
                    severe_day, rainy_day, next_sweep, recording_state, tone_timers,
                    conn, dec,
                    fetchers, byte_q, monitoring, app_lock, stream_urls >>

\* lines 256-286: the recorded segment is handed to start_relay, which relays
\* it or not; the task ends.  (RelayState::new fails only for a configuration
\* that Config::from_config_json has already refused.)
HandlerRelay(i) ==
    /\ i \in DOMAIN handlers
    /\ handlers[i].pc = "relay"
    /\ LET h    == handlers[i]
           code == CodeChars(h.event_code)
           sent == IF h.recorded # NoPath /\ StartRelayProceeds(filters, code)
                   THEN Append(h.sent, RelayStarted(h))
                   ELSE h.sent
       IN  /\ handlers' = WithoutHandler(i)
           /\ hist' = IF hist.keep # "dispatch" THEN SawRelayFilters(hist, filters)
                      ELSE [hist EXCEPT !.done = Dispatched(h, sent)]
    /\ UNCHANGED << now, watched_fips, sleep_until, reload, filters, should_relay, writers, alert_q, mgr, active_alerts,
                    severe_day, rainy_day, next_sweep, recording_state, tone_timers,
                    conn, dec,
                    fetchers, byte_q, monitoring, app_lock, stream_urls >>

(* ----------------------------- audio.rs -------------------------------- *)

\* the locals of process_stream as it starts (lines 402-413)
FreshDecoder ==
    [ consecutive_hits            |-> 0,
      tone_rearm_until            |-> NoTime,
      same_tone_suppression_until |-> NoTime,
      current_same_header         |-> NoHeader,
      sustained_tone_samples      |-> 0 ]

\* line 411: (TARGET_SAMPLE_RATE as f64 * 5.0) as usize
MinToneSamplesRequired == TARGET_SAMPLE_RATE * NWR_TONE_MIN_DURATION

\* variant of the hit counter with a wrapping add
DetectHits_Wrapping(hits, tone_hit, len) ==
    IF len = 0 THEN 0
    ELSE IF tone_hit THEN (hits + 1) % (U8_MAX + 1)
    ELSE 0

\* GoertzelToneDetector::detect, the hit counter after a chunk
DetectHits(hits, tone_hit, len) ==
    IF len = 0 THEN 0
    ELSE IF tone_hit THEN Min(hits + 1, U8_MAX)
    ELSE 0

\* GoertzelToneDetector::detect, its result
Armed(hits) == hits >= CONSECUTIVE_HITS_REQUIRED

\* variant of the suppression test with the comparison turned round
SameSuppressionActive_Inverted(until, t) == until # NoTime /\ t > until

\* lines 571-578
SameSuppressionActive(until, t) == until # NoTime /\ t < until

\* variant of the re-arm test that ignores the deadline
ToneRearmReady_Always(ready_at, t) == TRUE

\* lines 579-582
ToneRearmReady(ready_at, t) == ready_at = NoTime \/ t >= ready_at

\* lines 583-590: the sustained-tone counter after a chunk
SustainedAfter(count, suppressed, ready, tone_present, len) ==
    IF suppressed \/ ~ready THEN 0
    ELSE IF tone_present THEN count + len
    ELSE 0

\* variant of the tone edge with a strict comparison
ToneEdge_Strict(suppressed, ready, count) ==
    ~suppressed /\ ready /\ count > MinToneSamplesRequired

\* lines 592-595: the tone edge
ToneEdge(suppressed, ready, count) ==
    ~suppressed /\ ready /\ count >= MinToneSamplesRequired

\* variant of the tone edge's test that starts a recording whatever is
\* registered
ToneMayRecord_Always(reg) == TRUE

\* line 598: may the tone edge start a recording
ToneMayRecord(reg) == IsNone(reg)

\* nwr_tone_header_for_recording: every header of the model starts with
\* "ZCZC-" and ends with "-"
NwrToneHeaderForRecording(current_same_header) ==
    IF current_same_header # NoHeader THEN current_same_header ELSE TONE_PLACEHOLDER

\* tokio broadcast send to one receiver: a full buffer drops its oldest
\* message and marks the receiver lagged
BroadcastPush(h, s) ==
    IF h.pc \notin {"start", "wait"} THEN h
    ELSE IF Len(h.nnnn) >= NNNN_CAPACITY
         THEN [h EXCEPT !.nnnn = Append(Tail(h.nnnn), s), !.lagged = TRUE]
         ELSE [h EXCEPT !.nnnn = Append(h.nnnn, s)]

\* lines 517-523: the recordings the chunk's samples are sent to, those
\* registered with the decoder's stream label as the chunk comes
AudioTargets(reg, s) == { r.output_path : r \in { x \in reg : x.source_stream = s } }

NoMsg == [kind |-> "none", header |-> NoHeader]
Messages == {NoMsg, [kind |-> "eom", header |-> NoHeader]}
              \cup { [kind |-> "som", header |-> h] : h \in Headers }

\* process_stream, lines 511-760: one resampled chunk of `len` samples that
\* is a tone hit or not and carries at most one SAME message
ProcessChunk(s, tone_hit, len, msg, start_ok) ==
    /\ conn[s] = "up"
    /\ LET d            == dec[s]
           hits         == DetectHits(d.consecutive_hits, tone_hit, len)
           tone_present == Armed(hits)
           t            == now
           until1       == CASE msg.kind = "som" -> t + SAME_TONE_SUPPRESSION_DURATION
                             [] msg.kind = "eom" -> NoTime
                             [] OTHER -> d.same_tone_suppression_until
           header1      == CASE msg.kind = "som" -> msg.header
                             [] msg.kind = "eom" -> NoHeader
                             [] OTHER -> d.current_same_header
           suppressed   == SameSuppressionActive(until1, t)
           until2       == IF suppressed THEN until1 ELSE NoTime
           ready        == ToneRearmReady(d.tone_rearm_until, t)
           count        == SustainedAfter(d.sustained_tone_samples, suppressed, ready,
                                          tone_present, len)
           edge         == ToneEdge(suppressed, ready, count)
           tone_header  == NwrToneHeaderForRecording(header1)
           st           == StartEncodingTask(tone_header, s, now, "tone")
           started      == edge /\ ToneMayRecord(recording_state) /\ start_ok
       IN  /\ count <= MaxSamples
           /\ hits <= CONSECUTIVE_HITS_REQUIRED + MaxArmedRun
           /\ msg.kind = "som" =>
                 /\ hist.som_count < MaxSOM
                 /\ Len(alert_q) < Min(MaxQueue, ALERT_QUEUE_CAPACITY)
           /\ msg.kind = "eom" => hist.eom_count < MaxEOM
           /\ alert_q' = IF msg.kind = "som"
                         THEN Append(alert_q,
                                [ event      |-> HeaderEvent(msg.header),
                                  raw_header |-> msg.header,
                                  purge_time |-> IF HeaderValidDuration(msg.header) > 0
                                                 THEN HeaderValidDuration(msg.header) ELSE 0,
                                  stream     |-> s ])
                         ELSE alert_q
           /\ handlers' = IF msg.kind = "eom"
                          THEN [i \in DOMAIN handlers |-> BroadcastPush(handlers[i], s)]
                          ELSE handlers
           /\ recording_state' = IF started THEN Register(recording_state, st)
                                 ELSE recording_state
           /\ writers' = LET fed == Consume(writers, AudioTargets(recording_state, s), len)
                          IN  IF started THEN fed \cup { SpawnWriter(st) } ELSE fed
           /\ tone_timers' = IF started
                             THEN tone_timers \cup
                                    {[ pc |-> "sleep",
                                       stream |-> s, output_path |-> st.output_path,
                                       wake_at |-> t + NWR_TONE_RECORDING_DURATION,
                                       same_header |-> header1,
                                       config |-> reload.audio_config ]}
                             ELSE tone_timers
           /\ dec' = [dec EXCEPT ![s] =
                        [ consecutive_hits            |-> hits,
                          tone_rearm_until            |-> IF started
                                                          THEN t + NWR_TONE_RECORDING_DURATION
                                                          ELSE d.tone_rearm_until,
                          same_tone_suppression_until |-> until2,
                          current_same_header         |-> header1,
                          sustained_tone_samples      |-> IF started THEN 0 ELSE count ]]
           /\ hist' =
                LET counted == [hist EXCEPT
                                  !.som_count = IF msg.kind = "som" THEN @ + 1 ELSE @,
                                  !.eom_count = IF msg.kind = "eom" THEN @ + 1 ELSE @,
                                  !.same_seq[s] =
                                     CASE hist.keep # "nnnn" -> @
                                       [] msg.kind = "som" -> "som"
                                       [] msg.kind = "eom" /\ @ = "som" -> "eom"
                                       [] OTHER -> @,
                                  !.som_in_tone =
                                     @ \/ /\ hist.keep = "none"
                                          /\ msg.kind = "som"
                                          /\ \E r \in recording_state :
                                                r.source_stream = s /\ r.reason = "tone",
                                  !.try_send[s] =
                                     IF hist.keep # "chan" THEN @
                                     ELSE { TrySendResult(writers, p) :
                                               p \in AudioTargets(recording_state, s) },
                                  !.tick[s] = IF hist.keep # "chan" THEN @ ELSE ~@,
                                  !.peer_block[s] =
                                     @ \/ /\ hist.keep = "peers"
                                          /\ edge /\ start_ok /\ ~started
                                          /\ ~ContainsKey(recording_state, s),
                                  !.crossed =
                                     @ \/ /\ hist.keep = "peers"
                                          /\ len > 0
                                          /\ \E r \in recording_state :
                                                /\ r.output_path \in AudioTargets(recording_state, s)
                                                /\ r.source_stream # s ]
                    som_open1 == CASE msg.kind = "som" -> TRUE
                                   [] msg.kind = "eom" -> FALSE
                                   [] OTHER -> hist.som_open[s]
                    som_at1   == IF msg.kind = "som" THEN t ELSE hist.som_at[s]
                IN  IF hist.keep = "writers"
                    THEN [counted EXCEPT
                            !.stale[s] = @ \/ ( /\ len > 0
                                                /\ AudioTargets(recording_state, s)
                                                      \cap hist.cut[s] # {} )]
                    ELSE IF hist.keep # "latch" THEN counted
                    ELSE [counted EXCEPT
                            !.som_at[s] = som_at1,
                            !.som_open[s] = som_open1,
                            !.tone_at[s] = IF started THEN t ELSE @,
                            !.tone_conn[s] = IF started THEN TRUE ELSE @,
                            !.latch[s] = [ tone_present |-> tone_present,
                                           count        |-> count,
                                           edge         |-> edge ],
                            !.last_edge[s] =
                               IF edge
                               THEN [ at        |-> t,
                                      started   |-> started,
                                      som_at    |-> som_at1,
                                      som_open  |-> som_open1,
                                      tone_at   |-> hist.tone_at[s],
                                      tone_conn |-> hist.tone_conn[s] ]
                               ELSE @ ]
    /\ UNCHANGED << now, watched_fips, sleep_until, reload, filters, should_relay, mgr, active_alerts,
                    severe_day, rainy_day, next_sweep, conn,
                    fetchers, byte_q, monitoring, app_lock, stream_urls >>

\* the task spawned at line 650, after its 120 s sleep (lines 653-678)
ToneTimerFire(tm) ==
    /\ tm \in tone_timers
    /\ tm.pc = "sleep"
    /\ now >= tm.wake_at
    /\ recording_state' =
          IF \E r \in recording_state : Matches(r, tm.stream, tm.output_path)
          THEN Take(recording_state, tm.stream, tm.output_path)
          ELSE recording_state
    /\ tone_timers' = (tone_timers \ {tm}) \cup {[tm EXCEPT !.pc = "join"]}
    /\ UNCHANGED << now, watched_fips, sleep_until, reload, filters, should_relay, writers, alert_q, mgr, active_alerts, severe_day, rainy_day,
                    next_sweep, handlers, conn, dec, hist,
                    fetchers, byte_q, monitoring, app_lock, stream_urls >>

\* the task spawned at line 650, lines 680-757: the writer is awaited, the
\* notification is sent and the recording handed to start_relay with the
\* decoder's configuration as the task was spawned, which relays past its
\* filter decision where that configuration has relaying on (relay.rs 139,
\* 294).
\* (RelayState::new fails only for a configuration that
\* Config::from_config_json has already refused.)
ToneDispatch(tm) ==
    /\ tm \in tone_timers
    /\ tm.pc = "join"
    /\ WriterAwaited(writers, tm.output_path)
    /\ LET raw_header == NwrToneHeaderForRecording(tm.same_header)
           tone       == [ raw_header |-> raw_header,
                           event_code |-> "??W",
                           stream     |-> tm.stream,
                           join       |-> tm.output_path,
                           recorded   |-> tm.output_path ]
           code       == CodeChars("??W")
           notified   == << Notification(tone) >>
           sent       == IF StartRelayProceeds(tm.config.filters, code)
                            /\ tm.config.should_relay
                         THEN Append(notified,
                                [ kind        |-> "relay",
                                  filter_name |-> StartRelayFilterName(tm.config.filters, code),
                                  path        |-> tm.output_path ])
                         ELSE notified
       IN  hist' = IF hist.keep # "dispatch" THEN hist
                   ELSE [hist EXCEPT !.tone_done = Dispatched(tone, sent)]
    /\ tone_timers' = tone_timers \ {tm}
    /\ UNCHANGED << now, watched_fips, sleep_until, reload, filters, should_relay, writers,
                    alert_q, mgr, active_alerts, severe_day, rainy_day, next_sweep,
                    recording_state, handlers, conn, dec,
                    fetchers, byte_q, monitoring, app_lock, stream_urls >>

\* the fetcher tasks of a stream: `cur` says that the task spawned for the
\* present connection (line 276) runs, `old` counts the tasks spawned for
\* earlier connections that run still
NoFetcher == [cur |-> FALSE, old |-> 0]

\* the closure of line 326 returns and drops byte_rx: the fetcher of the
\* connection, where it runs, is left without a receiver.  Nothing awaits or
\* aborts the task spawned at line 276.
Orphaned(f) == IF f.cur THEN [cur |-> FALSE, old |-> f.old + 1] ELSE f

\* the history of a stream task: it makes a connection attempt (line 236),
\* and the time since the failure before it is kept ...
Attempted(h, s) ==
    IF h.keep # "conn" THEN h
    ELSE [h EXCEPT !.backoff[s] = IF h.failed_at[s] = NoTime THEN @
                                  ELSE now - h.failed_at[s],
                   !.failed_at[s] = NoTime]

\* ... and its attempt or its connection fails now
FailedNow(h, s) ==
    IF h.keep # "conn" THEN h ELSE [h EXCEPT !.failed_at[s] = now]

\* run_stream_task, lines 236-343: a connection is made, the fetcher and the
\* decoder are spawned and process_stream starts
Connect(s) ==
    /\ conn[s] = "down"
    /\ conn' = [conn EXCEPT ![s] = "up"]
    /\ dec' = [dec EXCEPT ![s] = FreshDecoder]
    /\ hist' = Attempted(hist, s)
    /\ fetchers' = [fetchers EXCEPT ![s].cur = TRUE]
    /\ byte_q' = [byte_q EXCEPT ![s] = << >>]
    /\ monitoring' = [monitoring EXCEPT ![s] = TRUE]
    /\ UNCHANGED << now, watched_fips, sleep_until, reload, filters, should_relay, writers, alert_q, mgr, active_alerts, severe_day, rainy_day,
                    next_sweep, recording_state, handlers, tone_timers, app_lock, stream_urls >>

\* run_stream_task, lines 236-245 and 354-362: send() returns an error and
\* the loop continues at its top
ConnectFails(s) ==
    /\ conn[s] = "down"
    /\ hist.failures[s] < MaxFailures
    /\ hist' = [FailedNow(Attempted(hist, s), s) EXCEPT !.failures[s] = @ + 1]
    /\ monitoring' = [monitoring EXCEPT ![s] = FALSE]
    /\ UNCHANGED << now, watched_fips, sleep_until, reload, filters, should_relay, writers,
                    alert_q, mgr, active_alerts, severe_day, rainy_day, next_sweep,
                    recording_state, handlers, tone_timers, conn, dec, fetchers, byte_q, app_lock, stream_urls >>

\* run_stream_task, lines 246-262: the response has no success status, the
\* task sleeps 1 s and continues
BadStatus(s) ==
    /\ conn[s] = "down"
    /\ hist.failures[s] < MaxFailures
    /\ conn' = [conn EXCEPT ![s] = "sleep"]
    /\ sleep_until' = [sleep_until EXCEPT ![s] = now + RECONNECT_BACKOFF]
    /\ hist' = [FailedNow(Attempted(hist, s), s) EXCEPT !.failures[s] = @ + 1]
    /\ monitoring' = [monitoring EXCEPT ![s] = FALSE]
    /\ UNCHANGED << now, watched_fips, reload, filters, should_relay, writers, alert_q, mgr,
                    active_alerts, severe_day, rainy_day, next_sweep, recording_state,
                    handlers, tone_timers, dec, fetchers, byte_q, app_lock, stream_urls >>

\* variant: the panic of one decoder takes every stream task down
StreamPanics_AllStreams(s) ==
    /\ conn[s] = "up"
    /\ conn' = [t \in Streams |-> "ended"]
    /\ hist' = FailedNow(hist, s)
    /\ fetchers' = [fetchers EXCEPT ![s] = Orphaned(@)]
    /\ byte_q' = [byte_q EXCEPT ![s] = << >>]
    /\ UNCHANGED << now, watched_fips, sleep_until, reload, filters, should_relay, writers,
                    alert_q, mgr, active_alerts, severe_day, rainy_day, next_sweep,
                    recording_state, handlers, tone_timers, dec, monitoring, app_lock, stream_urls >>

\* run_stream_task, line 344, with lines 160-174: the decoder's blocking
\* task panics (the resampler cannot be made, lines 468 and 491), `.await?`
\* returns the JoinError out of run_stream_task, the error is logged and the
\* task spawned for the stream is over
StreamPanics(s) ==
    /\ conn[s] = "up"
    /\ conn' = [conn EXCEPT ![s] = "ended"]
    /\ hist' = FailedNow(hist, s)
    /\ fetchers' = [fetchers EXCEPT ![s] = Orphaned(@)]
    /\ byte_q' = [byte_q EXCEPT ![s] = << >>]
    /\ UNCHANGED << now, watched_fips, sleep_until, reload, filters, should_relay, writers,
                    alert_q, mgr, active_alerts, severe_day, rainy_day, next_sweep,
                    recording_state, handlers, tone_timers, dec, monitoring, app_lock, stream_urls >>

\* run_stream_task, lines 344-364: the byte stream ends (EOF, read error,
\* stall) or the decoder gives up, process_stream returns and the task
\* sleeps 1 s
Disconnect(s) ==
    /\ conn[s] = "up"
    /\ hist.reconnects[s] < MaxReconnect
    /\ conn' = [conn EXCEPT ![s] = "sleep"]
    /\ sleep_until' = [sleep_until EXCEPT ![s] = now + RECONNECT_BACKOFF]
    /\ hist' = [FailedNow(hist, s) EXCEPT
                            !.reconnects[s] = @ + 1,
                            !.som_open[s] = FALSE,
                            !.tone_conn[s] = FALSE,
                            !.cut[s] = IF hist.keep = "writers"
                                       THEN @ \cup AudioTargets(recording_state, s)
                                       ELSE @]
    /\ fetchers' = [fetchers EXCEPT ![s] = Orphaned(@)]
    /\ byte_q' = [byte_q EXCEPT ![s] = << >>]
    /\ monitoring' = [monitoring EXCEPT ![s] = FALSE]
    /\ UNCHANGED << now, watched_fips, reload, filters, should_relay, writers, alert_q, mgr, active_alerts, severe_day, rainy_day,
                    next_sweep, recording_state, handlers, tone_timers, dec, app_lock, stream_urls >>

\* variant of the send that always finds room
TrySend_Unbounded(queue, chunk) == Append(queue, chunk)

\* crossbeam try_send on the bounded channel of line 272 while its receiver
\* lives: Full hands the chunk back and the queue is as it was
TrySend(queue, chunk) ==
    IF Len(queue) >= BYTE_QUEUE_CAPACITY THEN queue ELSE Append(queue, chunk)

\* the fetcher task, lines 281-298: response.chunk() gives the next chunk of
\* the socket (they are numbered as they are read) and it is offered to the
\* byte channel; the loop goes on whatever try_send says
FetchChunk(s) ==
    /\ fetchers[s].cur
    /\ hist.fetched[s] < MaxFetch
    /\ byte_q' = [byte_q EXCEPT ![s] = TrySend(@, hist.fetched[s] + 1)]
    /\ hist' = [hist EXCEPT !.fetched[s] = @ + 1,
                            !.dropped = @ \/ Len(byte_q[s]) >= BYTE_QUEUE_CAPACITY]
    /\ UNCHANGED << now, watched_fips, sleep_until, reload, filters, should_relay, writers,
                    alert_q, mgr, active_alerts, severe_day, rainy_day, next_sweep,
                    recording_state, handlers, tone_timers, conn, dec, fetchers, monitoring, app_lock, stream_urls >>

\* the fetcher task, lines 299-317: EOF, a read error or 120 s without a
\* chunk; the error is noted and the task is over, byte_tx dropped
FetcherEnds(s) ==
    /\ fetchers[s].cur
    /\ fetchers' = [fetchers EXCEPT ![s].cur = FALSE]
    /\ monitoring' = [monitoring EXCEPT ![s] = FALSE]
    /\ UNCHANGED << now, watched_fips, sleep_until, reload, filters, should_relay, writers,
                    alert_q, mgr, active_alerts, severe_day, rainy_day, next_sweep,
                    recording_state, handlers, tone_timers, conn, dec, byte_q, hist, app_lock, stream_urls >>

\* a fetcher task of an earlier connection, lines 285 and 295-297: its next
\* chunk comes, try_send finds the receiver gone and the task is over
OldFetcherChunk(s) ==
    /\ fetchers[s].old > 0
    /\ fetchers' = [fetchers EXCEPT ![s].old = @ - 1]
    /\ UNCHANGED << now, watched_fips, sleep_until, reload, filters, should_relay, writers,
                    alert_q, mgr, active_alerts, severe_day, rainy_day, next_sweep,
                    recording_state, handlers, tone_timers, conn, dec, byte_q, monitoring,
                    app_lock, stream_urls, hist >>

\* a fetcher task of an earlier connection, lines 299-317: its socket gives
\* EOF or an error, or nothing for 120 s; the task notes the error under
\* the stream's URL and is over
OldFetcherEnds(s) ==
    /\ fetchers[s].old > 0
    /\ fetchers' = [fetchers EXCEPT ![s].old = @ - 1]
    /\ monitoring' = [monitoring EXCEPT ![s] = FALSE]
    /\ UNCHANGED << now, watched_fips, sleep_until, reload, filters, should_relay, writers,
                    alert_q, mgr, active_alerts, severe_day, rainy_day, next_sweep,
                    recording_state, handlers, tone_timers, conn, dec, byte_q,
                    app_lock, stream_urls, hist >>

\* ChannelReader::read with its buffer used up: rx.recv() takes the oldest
\* chunk of the channel (it waits while the channel is empty and has a
\* sender)
ChannelRead(s) ==
    /\ conn[s] = "up"
    /\ byte_q[s] # << >>
    /\ byte_q' = [byte_q EXCEPT ![s] = Tail(@)]
    /\ hist' = [hist EXCEPT !.last_recv[s] = Head(byte_q[s])]
    /\ UNCHANGED << now, watched_fips, sleep_until, reload, filters, should_relay, writers,
                    alert_q, mgr, active_alerts, severe_day, rainy_day, next_sweep,
                    recording_state, handlers, tone_timers, conn, dec, fetchers, monitoring, app_lock, stream_urls >>

\* line 364 (and 261): the sleep of run_stream_task has ended and the task
\* is at the top of its loop.  The clock reads whole steps of `step`
\* seconds: a deadline before the next reading may have passed.
BackoffEnds(s, step) ==
    /\ conn[s] = "sleep"
    /\ sleep_until[s] < now + step
    /\ conn' = [conn EXCEPT ![s] = "down"]
    /\ sleep_until' = [sleep_until EXCEPT ![s] = NoTime]
    /\ UNCHANGED << now, watched_fips, reload, filters, should_relay, writers, alert_q, mgr,
                    active_alerts, severe_day, rainy_day, next_sweep, recording_state,
                    handlers, tone_timers, dec, hist,
                    fetchers, byte_q, monitoring, app_lock, stream_urls >>

(* ------------------------------ the clock ------------------------------ *)

\* a sleep whose deadline has come and whose task has not yet run
TimerDue ==
    \/ \E i \in DOMAIN handlers : handlers[i].pc = "wait" /\ now >= handlers[i].deadline
    \/ \E tm \in tone_timers : tm.pc = "sleep" /\ now >= tm.wake_at

\* The clock advances by one step, up to `max`.  A task whose sleep has ended
\* runs before a whole further step has passed.
Tick(max) ==
    /\ now + TickStep <= max
    /\ ~TimerDue
    /\ now' = now + TickStep
    /\ UNCHANGED << watched_fips, sleep_until, reload, filters, should_relay, writers, alert_q, mgr, active_alerts, severe_day, rainy_day,
                    next_sweep, recording_state, handlers, tone_timers, conn, dec, hist,
                    fetchers, byte_q, monitoring, app_lock, stream_urls >>

\* a sleep whose deadline is still to come
TimerPending ==
    \/ \E i \in DOMAIN handlers : handlers[i].pc = "wait" /\ now < handlers[i].deadline
    \/ \E tm \in tone_timers : tm.pc = "sleep" /\ now < tm.wake_at

\* the clock moves by one second
TickSecond(max) ==
    /\ now + 1 <= max
    /\ ~TimerDue
    /\ now' = now + 1
    /\ UNCHANGED << watched_fips, sleep_until, reload, filters, should_relay, writers, alert_q,
                    mgr, active_alerts, severe_day, rainy_day, next_sweep, recording_state,
                    handlers, tone_timers, conn, dec, hist,
                    fetchers, byte_q, monitoring, app_lock, stream_urls >>

\* The clock as above, and beyond `max` for as long as a sleep is pending.
TickToTimers(max) ==
    /\ now + TickStep <= max \/ TimerPending
    /\ ~TimerDue
    /\ now' = now + TickStep
    /\ UNCHANGED << watched_fips, sleep_until, reload, filters, should_relay, writers, alert_q, mgr, active_alerts,
                    severe_day, rainy_day, next_sweep, recording_state, handlers,
                    tone_timers, conn, dec, hist,
                    fetchers, byte_q, monitoring, app_lock, stream_urls >>

\* The clock up to `max`, and beyond for as long as an alert is in the
\* active set; the sweeper's interval tick is never a whole step late.
TickToSweeps(max) ==
    /\ now + TickStep <= max \/ active_alerts # << >>
    /\ next_sweep > now
    /\ now' = now + TickStep
    /\ UNCHANGED << watched_fips, sleep_until, reload, filters, should_relay, writers, alert_q, mgr, active_alerts,
                    severe_day, rainy_day, next_sweep, recording_state, handlers,
                    tone_timers, conn, dec, hist,
                    fetchers, byte_q, monitoring, app_lock, stream_urls >>

(* -------------------------- the specification -------------------------- *)

\* resampled chunk lengths: two chunks reach either side of the threshold
ChunkLens == {119999, 120000}

\* the filter lists a run may have installed (parse_filters keeps a rule with
\* at least one matcher and stores an Exact pattern normalized)
Rule(name, action, matchers) == [name |-> name, action |-> action, matchers |-> matchers]

FilterLists ==
    { << >>,
      << Rule("TestSkip", "Ignore", << Exact(<< "R", "W", "T" >>) >>) >>,
      << Rule("Tests", "Log", << Exact(<< "R", "W", "T" >>) >>),
         Rule("Warnings", "Forward", << Exact(<< "T", "O", "R" >>) >>) >>,
      << Rule("Warnings", "Relay", << Exact(<< "S", "V", "A" >>), Exact(<< "T", "O", "R" >>) >>),
         Rule("Rest", "Ignore", << Wildcard >>) >> }

\* the Config of a configuration document: the keys the model follows
ConfigOf(watched, rules, relay) ==
    [watched_fips |-> watched, filters |-> rules, should_relay |-> relay]

NoLatch == [tone_present |-> FALSE, count |-> 0, edge |-> FALSE]

NoEdge == [ at |-> NoTime, started |-> FALSE, som_at |-> NoTime, som_open |-> FALSE,
            tone_at |-> NoTime, tone_conn |-> FALSE ]

NoDecision == [raw_header |-> NoHeader, relevant |-> FALSE, watched |-> {}, dsame_ok |-> FALSE,
               at |-> NoTime]

NoInsertion == [alert |-> NoAlert, at |-> NoTime, renewed |-> FALSE, before |-> 0, had |-> FALSE, expired |-> 0]

NoStart == [stream |-> "none", saw_tone |-> FALSE, saw_same |-> FALSE]

NoDispatch == [raw_header |-> NoHeader, event_code |-> "none", stream |-> "none",
               join |-> NoPath, recorded |-> NoPath, sent |-> << >>]

NoSnapshot == [taken |-> FALSE, filters |-> << >>]

NoCall == [event_code |-> << >>, result |-> 0, called |-> FALSE]

\* which part of the history a behaviour keeps: the alert manager's
\* decisions ("alerts"), the tone latch ("latch"), what the last handler to
\* return has done ("dispatch"), the last call of match_filter ("filter"),
\* the recordings that were registered as their stream disconnected
\* ("writers"), what a recording of one stream did to another stream
\* ("peers"), the chunks a tone detector was given ("detect"), or the
\* counters only; "snap" keeps the filter list each decision of a handler
\* was taken against
HistKinds == {"alerts", "latch", "dispatch", "filter", "writers", "conn", "reload", "nnnn",
              "peers", "detect", "fetch", "chan", "snap", "none"}

InitFrom(lists, urls) ==
    /\ now = 0
    /\ watched_fips \in WatchedSets
    /\ filters \in lists
    /\ should_relay \in BOOLEAN
    /\ alert_q = << >>
    /\ mgr = [pc |-> "idle", alert |-> NoAlert, stream |-> "none"]
    /\ active_alerts = << >>
    /\ severe_day = FALSE
    /\ rainy_day = FALSE
    /\ next_sweep = 0
    /\ recording_state = {}
    /\ writers = {}
    /\ handlers = << >>
    /\ tone_timers = {}
    /\ conn = [s \in Streams |-> "down"]
    /\ sleep_until = [s \in Streams |-> NoTime]
    /\ reload = [ signal       |-> NoTime,
                  last_seen    |-> NoTime,
                  modified     |-> 0,
                  document     |-> [ valid  |-> TRUE,
                                     config |-> ConfigOf(watched_fips, filters, should_relay) ],
                  mgr_rx       |-> << >>,
                  audio_rx     |-> << >>,
                  audio_config |-> ConfigOf(watched_fips, filters, should_relay) ]
    /\ dec = [s \in Streams |-> FreshDecoder]
    /\ fetchers = [s \in Streams |-> NoFetcher]
    /\ byte_q = [s \in Streams |-> << >>]
    /\ monitoring = [s \in Streams |-> FALSE]
    /\ app_lock = "none"
    /\ stream_urls \in urls
    /\ \E k \in HistKinds : hist =
              [ keep       |-> k,
                start      |-> NoStart,
                done       |-> NoDispatch,
                tone_done  |-> NoDispatch,
                call       |-> NoCall,
                cut        |-> [s \in Streams |-> {}],
                stale      |-> [s \in Streams |-> FALSE],
                som_in_tone |-> FALSE,
                peer_block |-> [s \in Streams |-> FALSE],
                crossed    |-> FALSE,
                window     |-> << >>,
                armed      |-> FALSE,
                run        |-> 0,
                fetched    |-> [s \in Streams |-> 0],
                last_recv  |-> [s \in Streams |-> 0],
                dropped    |-> FALSE,
                try_send   |-> [s \in Streams |-> {}],
                tick       |-> [s \in Streams |-> FALSE],
                notify_filters |-> NoSnapshot,
                relay_filters  |-> NoSnapshot,
                decision   |-> NoDecision,
                insertion  |-> NoInsertion,
                last_op    |-> "none",
                removed    |-> 0,
                som_count  |-> 0,
                eom_count  |-> 0,
                reconnects |-> [s \in Streams |-> 0],
                failures   |-> [s \in Streams |-> 0],
                reloads    |-> << >>,
                same_seq   |-> [s \in Streams |-> "none"],
                failed_at  |-> [s \in Streams |-> NoTime],
                backoff    |-> [s \in Streams |-> NoTime],
                som_at     |-> [s \in Streams |-> NoTime],
                som_open   |-> [s \in Streams |-> FALSE],
                tone_at    |-> [s \in Streams |-> NoTime],
                tone_conn  |-> [s \in Streams |-> FALSE],
                latch      |-> [s \in Streams |-> NoLatch],
                last_edge  |-> [s \in Streams |-> NoEdge] ]

\* the stream URLs of a run: two mounts with labels of their own
DistinctMounts == [s \in Streams |-> IF s = "s1" THEN UrlOne ELSE UrlTwo]

InitWith(lists) == InitFrom(lists, {DistinctMounts})

Init == InitWith(FilterLists)

(* The alert set: StartOfMessage events of both streams, the alert manager  *)
(* and the sweeper.  Nothing a handler, a tone or a timer does reaches the  *)
(* active-alert set, the flag files or the manager's queue.                *)
(* The sweeper's interval tick is never a whole clock step late.           *)
AlertSoms == { << "s1", [kind |-> "som", header |-> h] >> : h \in {H_TOR, H_SVA, H_RWT} }
               \cup { << "s2", [kind |-> "som", header |-> h] >> : h \in {H_TOR, H_TOA} }
               \cup { << s, NoMsg >> : s \in Streams }

NextAlerts ==
    \/ Tick(MaxTimeAlerts) /\ next_sweep > now
    \/ \E s \in Streams : Connect(s)
    \/ \E in \in AlertSoms : ProcessChunk(in[1], FALSE, 2048, in[2], TRUE)
    \/ \E ok \in BOOLEAN : MgrRecv(ok)
    \/ MgrInsert
    \/ StateCleanup

InitAlerts == Init /\ filters = << >> /\ ~should_relay /\ hist.keep = "alerts"

SpecAlerts == InitAlerts /\ [][NextAlerts]_vars

(* The recordings of one stream: every message is relevant (nothing is     *)
(* watched), the decoder with its SAME messages and tone hits, the manager, *)
(* the handlers and the tone timers.  The writers, and what a task does     *)
(* once its recording is removed, are followed in SpecWriters, SpecDispatch *)
(* and SpecToneOut.                                                         *)
ToneMessages == {NoMsg, [kind |-> "eom", header |-> NoHeader],
                 [kind |-> "som", header |-> H_TOR]}

InitRec == Init /\ watched_fips = {} /\ filters = << >> /\ ~should_relay /\ hist.keep = "none"

InitTone == Init /\ watched_fips = {} /\ filters = << >> /\ ~should_relay /\ hist.keep = "latch"

NextRec ==
    \/ Tick(MaxTime)
    \/ Connect("s1")
    \/ \E msg \in ToneMessages \ {NoMsg} :
          /\ msg.kind = "som" => hist.som_count < MaxSomRec
          /\ ProcessChunk("s1", FALSE, 2048, msg, TRUE)
    \/ ProcessChunk("s1", TRUE, 120000, NoMsg, TRUE)
    \/ MgrRecv(TRUE)
    \/ MgrInsert
    \/ \E i \in DOMAIN handlers, ok \in BOOLEAN : HandlerStart(i, ok)
    \/ \E i \in DOMAIN handlers : HandlerTimeout(i)
    \/ \E i \in DOMAIN handlers : HandlerNnnn(i)
    \/ \E i \in DOMAIN handlers : HandlerStop(i)
    \/ \E i \in DOMAIN handlers : HandlerDispatch(i)
    \/ \E tm \in tone_timers : ToneTimerFire(tm)

SpecRec == InitRec /\ [][NextRec]_vars

(* The tone latch of one stream: tone hits, SAME messages, reconnects and   *)
(* the tone timers.                                                        *)
NextTone ==
    \/ Tick(MaxTime)
    \/ Connect("s1")
    \/ Disconnect("s1")
    \/ \E msg \in ToneMessages :
          /\ msg.kind = "som" => hist.som_count < MaxSomRec
          /\ ProcessChunk("s1", FALSE, 2048, msg, TRUE)
    \/ \E msg \in ToneMessages, ok \in BOOLEAN :
          /\ msg.kind = "som" => hist.som_count < MaxSomRec
          /\ ProcessChunk("s1", TRUE, 120000, msg, ok)
    \/ \E tm \in tone_timers : ToneTimerFire(tm)
    \/ BackoffEnds("s1", TickStep)

SpecTone == InitTone /\ [][NextTone]_vars

(* The same header on two streams: StartOfMessage and EndOfMessage on both, *)
(* the manager and the handlers.                                           *)
NextStreams ==
    \/ Tick(MaxTime)
    \/ \E s \in Streams : Connect(s)
    \/ \E s \in Streams, msg \in ToneMessages \ {NoMsg} :
          /\ msg.kind = "som" => hist.som_count < MaxSomRec
          /\ ProcessChunk(s, FALSE, 2048, msg, TRUE)
    \/ MgrRecv(TRUE)
    \/ MgrInsert
    \/ \E i \in DOMAIN handlers, ok \in BOOLEAN : HandlerStart(i, ok)
    \/ \E i \in DOMAIN handlers : HandlerTimeout(i)
    \/ \E i \in DOMAIN handlers : HandlerNnnn(i)
    \/ \E i \in DOMAIN handlers : HandlerStop(i)
    \/ \E i \in DOMAIN handlers : HandlerDispatch(i)
    \/ \E w \in writers : WriterFinish(w.path)

SpecStreams == InitRec /\ [][NextStreams]_vars

(* The sustained-tone counter of one stream: tone hits and non-hits in      *)
(* chunks of both lengths, without SAME messages.                          *)
NextLatch ==
    \/ Tick(MaxTime)
    \/ Connect("s1")
    \/ \E hit \in BOOLEAN, len \in ChunkLens, ok \in BOOLEAN :
          ProcessChunk("s1", hit, len, NoMsg, ok)
    \/ \E tm \in tone_timers : ToneTimerFire(tm)
    \/ \E tm \in tone_timers : ToneDispatch(tm)
    \/ \E w \in writers : WriterFinish(w.path)

SpecLatch == InitTone /\ [][NextLatch]_vars

(* The dispatch of one stream's alerts: SAME messages, the manager and the   *)
(* handlers with an installed filter list, relaying on or off.  The filter  *)
(* list stays as installed for the whole run.                              *)
DispatchMessages == { [kind |-> "eom", header |-> NoHeader] }
                      \cup { [kind |-> "som", header |-> h] : h \in {H_TOR, H_RWT} }

InitDispatch == Init /\ watched_fips = {} /\ filters # << >> /\ hist.keep = "dispatch"

NextDispatch ==
    \/ Tick(MaxTime)
    \/ Connect("s1")
    \/ \E msg \in DispatchMessages :
          /\ msg.kind = "som" => hist.som_count < MaxSomRec
          /\ ProcessChunk("s1", FALSE, 2048, msg, TRUE)
    \/ MgrRecv(TRUE)
    \/ MgrInsert
    \/ \E i \in DOMAIN handlers, ok \in BOOLEAN : HandlerStart(i, ok)
    \/ \E i \in DOMAIN handlers : HandlerTimeout(i)
    \/ \E i \in DOMAIN handlers : HandlerNnnn(i)
    \/ \E i \in DOMAIN handlers : HandlerStop(i)
    \/ \E i \in DOMAIN handlers : HandlerDispatch(i)
    \/ \E i \in DOMAIN handlers : HandlerRelay(i)
    \/ \E w \in writers : WriterFinish(w.path)

SpecDispatch == InitDispatch /\ [][NextDispatch]_vars

(* match_filter on its own: any list of up to MaxRules rules of up to      *)
(* MaxMatchers matchers is installed, and the function is called with any  *)
(* event code of up to MaxCodeLen letters of either case.                  *)
SeqsUpTo(S, n) == UNION { [1 .. k -> S] : k \in 0 .. n }

CodeLetters == {"t", "T", "r", "R"}

ProbeCodes == SeqsUpTo(CodeLetters, MaxCodeLen)

\* the Exact patterns parse_filters stores: normalized and not empty
ProbePatterns == { NormalizeEventCode(c) : c \in ProbeCodes } \ { << >> }

ProbeMatchers == { Wildcard } \cup { Exact(p) : p \in ProbePatterns }

ProbeRules == { Rule("probe", "Relay", ms) : ms \in SeqsUpTo(ProbeMatchers, MaxMatchers) \ { << >> } }

ProbeLists == SeqsUpTo(ProbeRules, MaxRules)

\* one call match_filter(&filters, event_code)
MatchFilterCall(event_code) ==
    /\ hist' = [hist EXCEPT !.call = [ event_code |-> event_code,
                                       result     |-> MatchFilter(filters, event_code),
                                       called     |-> TRUE ]]
    /\ UNCHANGED << now, watched_fips, sleep_until, reload, filters, should_relay, writers, alert_q, mgr, active_alerts,
                    severe_day, rainy_day, next_sweep, recording_state, handlers,
                    tone_timers, conn, dec,
                    fetchers, byte_q, monitoring, app_lock, stream_urls >>

InitFilter == InitWith(ProbeLists) /\ watched_fips = {} /\ ~should_relay /\ hist.keep = "filter"

NextFilter == \E event_code \in ProbeCodes : MatchFilterCall(event_code)

SpecFilter == InitFilter /\ [][NextFilter]_vars

(* The recordings of one stream's SAME messages and their writers: the same *)
(* header decoded more than once, EndOfMessage, reconnects, the manager,    *)
(* the handlers and the writer tasks.  Every recording can be started.      *)
InitWriters == Init /\ watched_fips = {} /\ filters = << >> /\ ~should_relay
                    /\ hist.keep = "writers"

NextWriters ==
    \/ Tick(MaxTime)
    \/ Connect("s1")
    \/ Disconnect("s1")
    \/ \E msg \in ToneMessages :
          /\ msg.kind = "som" => hist.som_count < MaxSomRec
          /\ ProcessChunk("s1", FALSE, 2048, msg, TRUE)
    \/ MgrRecv(TRUE)
    \/ MgrInsert
    \/ \E i \in DOMAIN handlers : HandlerStart(i, TRUE)
    \/ \E i \in DOMAIN handlers : HandlerTimeout(i)
    \/ \E i \in DOMAIN handlers : HandlerNnnn(i)
    \/ \E i \in DOMAIN handlers : HandlerStop(i)
    \/ \E i \in DOMAIN handlers : HandlerDispatch(i)
    \/ \E w \in writers : WriterFinish(w.path)
    \/ BackoffEnds("s1", TickStep)

SpecWriters == InitWriters /\ [][NextWriters]_vars

(* Every recording to its end: SAME messages and tones of one stream are    *)
(* decoded up to MaxTimeLive, the clock runs on while a timer is pending.   *)
(* The tokio runtime runs every task that can take a step, and time passes: *)
(* the manager, the handlers, the tone timer tasks, the writer tasks and    *)
(* the clock are weakly fair.  Nothing is assumed of the streams.           *)
NextLive ==
    \/ TickToTimers(MaxTimeLive)
    \/ Connect("s1")
    \/ Disconnect("s1")
    \/ \E msg \in ToneMessages \ {NoMsg} :
          /\ now <= MaxTimeLive
          /\ msg.kind = "som" => hist.som_count < MaxSomLive
          /\ ProcessChunk("s1", FALSE, 2048, msg, TRUE)
    \/ /\ now <= MaxTimeLive
       /\ ProcessChunk("s1", TRUE, 120000, NoMsg, TRUE)
    \/ MgrRecv(TRUE)
    \/ MgrInsert
    \/ \E i \in DOMAIN handlers : HandlerStart(i, TRUE)
    \/ \E i \in DOMAIN handlers : HandlerTimeout(i)
    \/ \E i \in DOMAIN handlers : HandlerNnnn(i)
    \/ \E i \in DOMAIN handlers : HandlerStop(i)
    \/ \E i \in DOMAIN handlers : HandlerDispatch(i)
    \/ \E tm \in tone_timers : ToneTimerFire(tm)
    \/ \E w \in writers : WriterFinish(w.path)
    \/ BackoffEnds("s1", TickStep)
    \/ \E tm \in tone_timers : ToneDispatch(tm)

FairLive ==
    /\ WF_vars(TickToTimers(MaxTimeLive))
    /\ WF_vars(MgrRecv(TRUE))
    /\ WF_vars(MgrInsert)
    /\ WF_vars(\E i \in DOMAIN handlers : HandlerStart(i, TRUE))
    /\ WF_vars(\E i \in DOMAIN handlers : HandlerTimeout(i))
    /\ WF_vars(\E i \in DOMAIN handlers : HandlerStop(i))
    /\ WF_vars(\E i \in DOMAIN handlers : HandlerDispatch(i))
    /\ WF_vars(\E tm \in tone_timers : ToneTimerFire(tm))
    /\ WF_vars(\E w \in writers : WriterFinish(w.path))

SpecLive == InitRec /\ [][NextLive]_vars /\ FairLive

(* The active-alert set to the end of every alert: StartOfMessage events   *)
(* of one stream are decoded up to MaxTimeLive, the clock runs on while an  *)
(* alert is in the set.  Time passes and the sweeper's interval ticks: the  *)
(* clock, the manager and the sweeper are weakly fair.                      *)
SweepSoms == { [kind |-> "som", header |-> h] : h \in {H_TOR, H_SVA, H_RWT} }

InitSweep == InitAlerts /\ watched_fips = {}

NextSweep ==
    \/ TickToSweeps(MaxTimeLive)
    \/ Connect("s1")
    \/ \E msg \in SweepSoms :
          /\ now <= MaxTimeLive
          /\ hist.som_count < MaxSOM
          /\ ProcessChunk("s1", FALSE, 2048, msg, TRUE)
    \/ MgrRecv(TRUE)
    \/ MgrInsert
    \/ StateCleanup

FairSweep ==
    /\ WF_vars(TickToSweeps(MaxTimeLive))
    /\ WF_vars(MgrRecv(TRUE))
    /\ WF_vars(MgrInsert)
    /\ WF_vars(StateCleanup)

SpecSweep == InitSweep /\ [][NextSweep]_vars /\ FairSweep

(* ------------------------ the active-alert set ------------------------- *)

EntriesFor(alerts, h) == { i \in DOMAIN alerts : alerts[i].raw_header = h }

\* C1: after any sequence of StartOfMessage events of any streams and of
\* sweeps, no two entries of the active-alert set have the same raw_header.
C1_NoDuplicateHeader ==
    \A i, j \in DOMAIN active_alerts :
        active_alerts[i].raw_header = active_alerts[j].raw_header => i = j

\* a header was delivered again while its entry was in the set, and other
\* entries are in the set with it
C1_Witness ==
    /\ hist.last_op = "insert"
    /\ hist.insertion.had
    /\ Len(active_alerts) >= 2

\* C4 as stated: the insertion of a header whose entry is in the set leaves
\* the number of active alerts as it was.
C4_CountUnchanged ==
    (hist.last_op = "insert" /\ hist.insertion.had) =>
        Len(active_alerts) = hist.insertion.before

\* C4: re-delivering a header whose entry is in the set never increases the
\* number of active alerts.  When the new delivery is inserted, the set holds
\* exactly one entry for the header, the one with the received_at and the
\* expires_at of the new delivery, and the count falls by the number of
\* other entries whose expires_at had passed.
C4_Redelivery ==
    (hist.last_op = "insert" /\ hist.insertion.had) =>
        /\ Len(active_alerts) = hist.insertion.before - hist.insertion.expired
        /\ Len(active_alerts) <= hist.insertion.before
        /\ \A i \in EntriesFor(active_alerts, hist.insertion.alert.raw_header) :
              /\ active_alerts[i] = hist.insertion.alert
              /\ active_alerts[i].received_at = hist.insertion.at
              /\ active_alerts[i].expires_at = hist.insertion.at + active_alerts[i].purge_time
        /\ Cardinality(EntriesFor(active_alerts, hist.insertion.alert.raw_header)) = 1

\* a re-delivery at a later time than the first one replaced the entry and
\* evicted an expired one
C4_Witness ==
    /\ hist.last_op = "insert"
    /\ hist.insertion.had
    /\ hist.insertion.expired > 0
    /\ hist.insertion.renewed

RelevanceRule(header_fips, watched) ==
    \/ watched = {}
    \/ "000000" \in watched
    \/ "" \in watched
    \/ "000000" \in Range(header_fips)
    \/ Range(header_fips) \cap watched # {}

\* C5 as stated: the alert manager treats an alert as relevant exactly when
\* the watched-FIPS set is empty, or contains 000000 or the empty string, or
\* the header's FIPS list contains 000000 or meets the watched set; nothing
\* else bears on the decision.
C5_RelevanceByHeaderFips ==
    hist.decision.raw_header # NoHeader =>
        (hist.decision.relevant <=>
            RelevanceRule(HeaderFips(hist.decision.raw_header), hist.decision.watched))

C2_OnePerStream ==
    \A r1, r2 \in recording_state :
        r1.source_stream = r2.source_stream => r1 = r2

\* a SAME handler found the recording of an earlier handler registered for
\* its stream and a handler's recording is registered still
C2_Witness ==
    /\ hist.start.saw_same
    /\ \E r \in recording_state : r.reason = "same" /\ r.source_stream = hist.start.stream

\* C3 as stated: for any raw_header, at most one RecordingState opened for
\* that header is registered system-wide at any time, however the header was
\* received.
C3_OnePerHeader ==
    \A r1, r2 \in recording_state :
        (r1.reason = "same" /\ r2.reason = "same" /\ r1.header = r2.header) => r1 = r2

\* C7: a StartOfMessage on stream s while a tone recording on s is registered
\* creates no second RecordingState for s and neither stops nor replaces the
\* tone recording: a registered tone recording stays the only record of its
\* stream until the step of its own timer, 120 s after its start, removes it.
C7_ToneRecordingStays ==
    [][ \A r \in recording_state :
          r.reason = "tone" =>
             \/ /\ r \in recording_state'
                /\ \A r2 \in recording_state' : r2.source_stream = r.source_stream => r2 = r
             \/ /\ r \notin recording_state'
                /\ \E tm \in tone_timers \ tone_timers' :
                      /\ tm.stream = r.source_stream
                      /\ tm.output_path = r.output_path
                      /\ tm.wake_at = r.output_path.ts + 120
                      /\ now >= tm.wake_at ]_vars

\* a StartOfMessage was decoded while a tone recording of its stream was
\* registered, a handler found the tone recording registered for its stream,
\* and the tone recording has since been removed by its timer
C7_Witness ==
    /\ hist.som_in_tone
    /\ hist.start.saw_tone
    /\ recording_state = {}
    /\ \A tm \in tone_timers : tm.pc # "sleep"

(* ---------------------------- the tone latch --------------------------- *)

C9_EdgeAtThreshold ==
    \A s \in Streams :
        /\ hist.latch[s].edge <=> hist.latch[s].count >= 240000
        /\ ~hist.latch[s].tone_present => hist.latch[s].count = 0

\* two armed chunks brought the count to 240000 exactly and the edge was
\* raised
C9_Witness ==
    /\ hist.latch["s1"].count = 240000
    /\ hist.latch["s1"].edge
    /\ hist.latch["s1"].tone_present

\* C10 as stated: after a tone edge has started a tone recording on a stream,
\* no further tone edge is raised on that stream for 120 s.
C10_NoEdgeAfterToneStart ==
    \A s \in Streams :
        (hist.last_edge[s].at # NoTime /\ hist.last_edge[s].tone_at # NoTime) =>
            hist.last_edge[s].at >= hist.last_edge[s].tone_at + 120

\* C10: after a tone edge has started a tone recording on a stream, no tone
\* edge starts a further tone recording on that stream for 120 s, and no tone
\* edge at all is raised on it for 120 s while the stream stays connected.
C10_OneRecordingPerWindow ==
    \A s \in Streams :
        (/\ hist.last_edge[s].at # NoTime
         /\ hist.last_edge[s].tone_at # NoTime
         /\ hist.last_edge[s].started \/ hist.last_edge[s].tone_conn) =>
            hist.last_edge[s].at >= hist.last_edge[s].tone_at + 120

\* on a stream that stayed connected, a second tone recording was started
\* 120 s or more after the first
C10_Witness ==
    /\ hist.last_edge["s1"].started
    /\ hist.last_edge["s1"].tone_conn
    /\ hist.last_edge["s1"].tone_at # NoTime
    /\ hist.last_edge["s1"].at >= hist.last_edge["s1"].tone_at + 120

(* --------------------------- the dispatch ------------------------------ *)

\* a rule one of whose matchers accepts the code: a wildcard, or an exact
\* pattern equal to the uppercased code
RuleAccepts(rule, code) ==
    \E k \in DOMAIN rule.matchers :
        \/ rule.matchers[k].kind = "Wildcard"
        \/ /\ rule.matchers[k].kind = "Exact"
           /\ rule.matchers[k].expected = MakeAsciiUppercase(code)

\* the position of the first rule in list order that accepts the code, 0
\* when none does
FirstAccepting(rules, code) ==
    IF \E k \in DOMAIN rules : RuleAccepts(rules[k], code)
    THEN CHOOSE k \in DOMAIN rules :
            /\ RuleAccepts(rules[k], code)
            /\ \A j \in 1 .. k - 1 : ~RuleAccepts(rules[j], code)
    ELSE 0

\* the action of the first matching rule of the installed list for an
\* alert's event code, "none" when no rule matches
ActionFor(event_code) ==
    LET m == FirstAccepting(filters, CodeChars(event_code))
    IN  IF m = 0 THEN "none" ELSE filters[m].action

Kinds(sent) == [k \in DOMAIN sent |-> sent[k].kind]

Count(sent, kind) == Cardinality({ k \in DOMAIN sent : sent[k].kind = kind })

\* a handler has returned in this step
HandlerReturns == Len(handlers') < Len(handlers)

\* C11: when the first matching rule for a relevant alert's event code has
\* action Ignore, the manager still inserts the ActiveAlert and spawns its
\* handler, the handler's recording is still taken to its end, and the
\* handler returns having sent no notification and relayed nothing.
C11_IgnoreStillRecords ==
    [][ /\ ( /\ mgr.pc = "insert"
             /\ mgr'.pc = "idle"
             /\ ActionFor(mgr.alert.event_code) = "Ignore" )
           => /\ \E k \in DOMAIN active_alerts' : active_alerts'[k] = mgr.alert
              /\ Len(handlers') = Len(handlers) + 1
              /\ handlers'[Len(handlers')].raw_header = mgr.alert.raw_header
              /\ handlers'[Len(handlers')].pc = "start"
        /\ ( /\ HandlerReturns
             /\ hist.keep = "dispatch"
             /\ ActionFor(hist.done'.event_code) = "Ignore" )
           => /\ hist.done'.sent = << >>
              /\ hist.done'.recorded = hist.done'.join
      ]_vars

C11_Witness ==
    /\ should_relay
    /\ hist.done.event_code = "RWT"
    /\ ActionFor("RWT") = "Ignore"
    /\ hist.done.recorded # NoPath
    /\ hist.done.sent = << >>
    /\ \E k \in DOMAIN active_alerts : active_alerts[k].raw_header = hist.done.raw_header

\* C12: a handler whose alert's matched action is Log or Forward returns
\* having sent exactly one notification and having relayed nothing, and has
\* sent exactly one notification whenever it comes to the relay step.
C12_LogForwardNotifyOnce ==
    /\ ( /\ hist.done # NoDispatch
         /\ ActionFor(hist.done.event_code) \in {"Log", "Forward"} )
       => /\ Count(hist.done.sent, "notify") = 1
          /\ Count(hist.done.sent, "relay") = 0
    /\ \A i \in DOMAIN handlers :
          ( /\ handlers[i].pc = "relay"
            /\ ActionFor(handlers[i].event_code) \in {"Log", "Forward"} )
          => Kinds(handlers[i].sent) = << "notify" >>

C12_Witness ==
    /\ should_relay
    /\ ActionFor(hist.done.event_code) = "Log"
    /\ hist.done.recorded # NoPath
    /\ Kinds(hist.done.sent) = << "notify" >>

\* C13: a handler whose alert's matched action is Relay, with relaying
\* enabled and a completed recording, returns having sent one notification
\* and then handed the recorded path to the relay, in this order; when it
\* comes to the relay step the notification has been sent.
C13_RelayAfterNotification ==
    /\ ( /\ hist.done # NoDispatch
         /\ ActionFor(hist.done.event_code) = "Relay"
         /\ should_relay
         /\ hist.done.recorded # NoPath )
       => /\ Kinds(hist.done.sent) = << "notify", "relay" >>
          /\ hist.done.sent[2].path = hist.done.recorded
    /\ \A i \in DOMAIN handlers :
          ( /\ handlers[i].pc = "relay"
            /\ ActionFor(handlers[i].event_code) = "Relay" )
          => Kinds(handlers[i].sent) = << "notify" >>

C13_Witness ==
    /\ should_relay
    /\ ActionFor(hist.done.event_code) = "Relay"
    /\ hist.done.recorded # NoPath
    /\ hist.done.recorded = hist.done.join
    /\ Kinds(hist.done.sent) = << "notify", "relay" >>

\* C14: when no rule matches an alert's event code, the decisions are those
\* of a Relay rule: should_log is true, should_forward is false, the handler
\* sends the notification, relays the completed recording where relaying is
\* enabled, and reports the filter name `Default Filter`.
C14_DefaultActsAsRelay ==
    ( /\ hist.done # NoDispatch
      /\ ActionFor(hist.done.event_code) = "none" )
    => /\ ShouldLogAlert(filters, CodeChars(hist.done.event_code))
       /\ ~ShouldForwardAlert(filters, CodeChars(hist.done.event_code))
       /\ Kinds(hist.done.sent) =
             IF should_relay /\ hist.done.recorded # NoPath
             THEN << "notify", "relay" >>
             ELSE << "notify" >>
       /\ \A k \in DOMAIN hist.done.sent :
             hist.done.sent[k].filter_name = "Default Filter"

\* C15: match_filter returns the first rule in list order one of whose
\* matchers accepts the event code (a wildcard accepts every code, an exact
\* pattern the code equal to it after uppercasing), None when there is no
\* such rule, and the same rule for every upper/lower-case variant of the
\* code.
C15_FirstMatchAnyCase ==
    hist.call.called =>
       /\ hist.call.result = FirstAccepting(filters, hist.call.event_code)
       /\ \A variant \in ProbeCodes :
             MakeAsciiUppercase(variant) = MakeAsciiUppercase(hist.call.event_code)
             => MatchFilter(filters, variant) = hist.call.result

\* a lower-case code that the second rule accepts and the first does not
C15_Witness ==
    /\ hist.call.called
    /\ hist.call.event_code = << "t", "r" >>
    /\ Len(filters) = 2
    /\ hist.call.result = 2
    /\ filters[2].matchers = << Exact(<< "R" >>), Exact(<< "T", "R" >>) >>

(* ---------------------- recordings and writers ------------------------- *)

\* C16: when the same SAME header is decoded twice on one stream, the second
\* time while the first instance is being handled, the active-alert set
\* holds one entry for it and each of the two handlers records a WAV file
\* of its own, the second under the next free name.
C16_OwnWavPerInstance ==
    /\ Len(active_alerts) <= 1
    /\ \A i \in DOMAIN handlers :
          handlers[i].pc # "start" => handlers[i].join # NoPath
    /\ \A i, j \in DOMAIN handlers :
          (i # j /\ handlers[i].join # NoPath /\ handlers[j].join # NoPath)
          => handlers[i].join # handlers[j].join

\* C17: a recording that was registered for a stream as the stream
\* disconnected is not registered for it any more when the stream is
\* connected again, and no chunk decoded after the reconnect is sent to it.
C17_OldRecordingNotReused ==
    \A s \in Streams :
       /\ ~hist.stale[s]
       /\ conn[s] = "up" => AudioTargets(recording_state, s) \cap hist.cut[s] = {}

\* the file names a recording of the fair runs can have: the clock passes
\* MaxTimeLive only while a tone timer or a handler's deadline is pending
LivePaths ==
    { [event |-> ev, ts |-> t * TickStep,
       label |-> StreamLabelFromSource(DistinctMounts["s1"]), n |-> k] :
        ev \in {"TOR", "W"},
        t \in 0 .. (MaxTimeLive + NWR_TONE_RECORDING_DURATION
                      + MaxSomLive * SAME_RECORDING_TIMEOUT) \div TickStep,
        k \in 0 .. MaxSomLive - 1 }

Registered(path) == \E r \in recording_state : r.output_path = path

Finalized(path) == ~Registered(path) /\ \E w \in writers : w.path = path /\ w.st = "done"

\* the removal of every registered recording is under way: a SAME recording
\* has its handler waiting on the 300 s deadline set as it started, or
\* about to remove it; a tone recording has its 120 s timer
RemovalScheduled ==
    \A r \in recording_state :
        /\ r.reason = "same" =>
              \E i \in DOMAIN handlers :
                 /\ handlers[i].join = r.output_path
                 /\ handlers[i].pc \in {"wait", "stop"}
                 /\ handlers[i].deadline = r.output_path.ts + SAME_RECORDING_TIMEOUT
        /\ r.reason = "tone" =>
              \E tm \in tone_timers :
                 /\ tm.output_path = r.output_path
                 /\ tm.stream = r.source_stream
                 /\ tm.wake_at = r.output_path.ts + NWR_TONE_RECORDING_DURATION

ExpiredEntry(h) ==
    \E k \in DOMAIN active_alerts :
        active_alerts[k].raw_header = h /\ active_alerts[k].expires_at <= now

\* C19: an insertion leaves no earlier entry whose expires_at <= now in the
\* active set, a sweep at time now leaves no entry at all whose
\* expires_at <= now, and an entry whose expires_at has passed is
\* eventually removed.
C19_ExpiredAlertsGo ==
    /\ [][ /\ (mgr.pc = "insert" /\ mgr'.pc = "idle")
              => /\ active_alerts'[Len(active_alerts')] = mgr.alert
                 /\ \A k \in 1 .. Len(active_alerts') - 1 :
                       /\ active_alerts'[k].expires_at > now
                       /\ \E j \in DOMAIN active_alerts : active_alerts[j] = active_alerts'[k]
           /\ (next_sweep' # next_sweep)
              => /\ \A k \in DOMAIN active_alerts' : active_alerts'[k].expires_at > now
                 /\ \A j \in DOMAIN active_alerts :
                       active_alerts[j].expires_at > now
                       => \E k \in DOMAIN active_alerts' : active_alerts'[k] = active_alerts[j]
         ]_vars
    /\ \A h \in Headers : ExpiredEntry(h) ~> ~ExpiredEntry(h)

\* a sweep has removed an expired alert after an insertion had evicted one
C19_Witness ==
    /\ hist.last_op = "sweep"
    /\ hist.removed > 0
    /\ hist.insertion.expired > 0
    /\ active_alerts # << >>

\* C20: every ActiveAlert in the set has expires_at > received_at, whatever
\* valid duration its header carries (zero included).
C20_ExpiresAfterReceived ==
    \A k \in DOMAIN active_alerts :
        active_alerts[k].expires_at > active_alerts[k].received_at

(* ------------------------------------------------------------------------ *)
(* The stream tasks second by second: connection attempts that fail, bad   *)
(* statuses, connections that end, a decoder that panics, the 1 s sleep,    *)
(* and the messages decoded meanwhile.                                      *)
(* ------------------------------------------------------------------------ *)

InitConn == Init /\ watched_fips = {} /\ filters = << >> /\ ~should_relay
                 /\ hist.keep = "conn"

NextConn ==
    \/ TickSecond(MaxTimeConn)
    \/ \E s \in Streams : Connect(s)
    \/ \E s \in Streams : ConnectFails(s)
    \/ \E s \in Streams : BadStatus(s)
    \/ \E s \in Streams : Disconnect(s)
    \/ \E s \in Streams : StreamPanics(s)
    \/ \E s \in Streams : BackoffEnds(s, 1)
    \/ \E s \in Streams :
          /\ hist.som_count < MaxSomLive
          /\ ProcessChunk(s, FALSE, 2048, [kind |-> "som", header |-> H_TOR], TRUE)

SpecConn == InitConn /\ [][NextConn]_vars

\* C22: after any failure of a stream's fetcher or decoder the stream waits
\* the 1 s backoff before its next connection attempt, and it never stops
\* reconnecting: no stream task is ever over, and no attempt is made less
\* than 1 s after the failure before it.
C22_BackoffThenReconnect ==
    \A s \in Streams :
        /\ conn[s] # "ended"
        /\ hist.backoff[s] # NoTime => hist.backoff[s] >= RECONNECT_BACKOFF

\* C23: the failure, the panic or the end of one stream's task leaves the
\* pipeline of every other stream as it is: the step changes neither the
\* connection nor the decoder nor the sleep of another stream, and a stream
\* whose own task did not fail keeps the connection and the decoder it has.
C23_PeersUntouched ==
    [][ \A s \in Streams :
          ( \/ conn[s] \in {"up", "down"} /\ conn'[s] \in {"sleep", "ended"}
            \/ hist'.failures[s] # hist.failures[s] )
          => \A t \in Streams \ {s} :
                /\ conn'[t] = conn[t]
                /\ dec'[t] = dec[t]
                /\ sleep_until'[t] = sleep_until[t] ]_vars

\* the task of stream s1 is over after a panic of its decoder, and stream
\* s2, connected, has decoded a StartOfMessage at a later time
C23_Witness ==
    /\ conn["s1"] = "ended"
    /\ conn["s2"] = "up"
    /\ hist.failed_at["s1"] # NoTime
    /\ now > hist.failed_at["s1"]
    /\ dec["s2"].same_tone_suppression_until = now + SAME_TONE_SUPPRESSION_DURATION
    /\ \E k \in DOMAIN alert_q : alert_q[k].stream = "s2"

(* ------------------------------------------------------------------------ *)
(* The reload handler: the signal file is touched, the configuration file   *)
(* rewritten (well or badly), the handler polls, and the manager and the    *)
(* audio processor take what was broadcast.                                  *)
(* ------------------------------------------------------------------------ *)

\* variant: a file that does not parse yields a configuration all the same
FromConfigJson_Lenient(document) == [ ok |-> TRUE, config |-> document.config ]

\* Config::from_config_json: the file is read and parsed, nothing is installed
FromConfigJson(document) == [ ok |-> document.valid, config |-> document.config ]

\* broadcast::Sender::send on the reload channel: a receiver that holds 16
\* values loses its oldest one
ReloadSend(queue, config) ==
    IF Len(queue) < RELOAD_CAPACITY THEN Append(queue, config)
    ELSE Append(Tail(queue), config)

\* run_reload_handler, lines 150-155: is the signal file there with a
\* modification time later than the one last seen
ShouldReload(r) ==
    /\ r.signal # NoTime
    /\ r.last_seen = NoTime \/ r.signal > r.last_seen

\* run_reload_handler, one turn of the loop that finds something to do
\* (lines 141-179)
ReloadPoll ==
    /\ ShouldReload(reload)
    /\ LET parsed == FromConfigJson(reload.document)
       IN  /\ filters' = IF parsed.ok THEN parsed.config.filters ELSE filters
           /\ reload' = IF parsed.ok
                         THEN [reload EXCEPT
                                 !.mgr_rx = ReloadSend(@, parsed.config),
                                 !.audio_rx = ReloadSend(@, parsed.config),
                                 !.signal = NoTime,
                                 !.last_seen = reload.signal]
                         ELSE [reload EXCEPT !.last_seen = reload.signal]
           /\ hist' = IF hist.keep # "reload" THEN hist
                       ELSE [hist EXCEPT !.reloads =
                               Append(@, IF parsed.ok THEN "ok" ELSE "failed")]
    /\ UNCHANGED << now, watched_fips, sleep_until, should_relay, writers, alert_q, mgr,
                    active_alerts, severe_day, rainy_day, next_sweep, recording_state,
                    handlers, tone_timers, conn, dec,
                    fetchers, byte_q, monitoring, app_lock, stream_urls >>

\* run_alert_manager, lines 61-75: the manager, between two alerts, takes a
\* configuration from the reload channel
MgrReload ==
    /\ mgr.pc = "idle"
    /\ reload.mgr_rx # << >>
    /\ watched_fips' = Head(reload.mgr_rx).watched_fips
    /\ should_relay' = Head(reload.mgr_rx).should_relay
    /\ reload' = [reload EXCEPT !.mgr_rx = Tail(@)]
    /\ UNCHANGED << now, sleep_until, filters, writers, alert_q, mgr, active_alerts,
                    severe_day, rainy_day, next_sweep, recording_state, handlers,
                    tone_timers, conn, dec, hist,
                    fetchers, byte_q, monitoring, app_lock, stream_urls >>

\* run_audio_processor, lines 181-199: the configuration the decoders read
\* is replaced by one taken from the reload channel
AudioReload ==
    /\ reload.audio_rx # << >>
    /\ reload' = [reload EXCEPT !.audio_config = Head(reload.audio_rx),
                                !.audio_rx = Tail(@)]
    /\ UNCHANGED << now, watched_fips, sleep_until, filters, should_relay, writers, alert_q,
                    mgr, active_alerts, severe_day, rainy_day, next_sweep, recording_state,
                    handlers, tone_timers, conn, dec, hist,
                    fetchers, byte_q, monitoring, app_lock, stream_urls >>

\* the signal file is created or written again: its modification time is
\* later than every earlier one
TouchSignal ==
    /\ reload.modified < MaxTouch
    /\ reload' = [reload EXCEPT !.modified = @ + 1, !.signal = reload.modified + 1]
    /\ UNCHANGED << now, watched_fips, sleep_until, filters, should_relay, writers, alert_q,
                    mgr, active_alerts, severe_day, rainy_day, next_sweep, recording_state,
                    handlers, tone_timers, conn, dec, hist,
                    fetchers, byte_q, monitoring, app_lock, stream_urls >>

\* the configuration file is rewritten
WriteDocument(document) ==
    /\ reload.document # document
    /\ reload' = [reload EXCEPT !.document = document]
    /\ UNCHANGED << now, watched_fips, sleep_until, filters, should_relay, writers, alert_q,
                    mgr, active_alerts, severe_day, rainy_day, next_sweep, recording_state,
                    handlers, tone_timers, conn, dec, hist,
                    fetchers, byte_q, monitoring, app_lock, stream_urls >>

\* the configuration files written in a run: two that parse, and one of
\* them cut short
Documents ==
    LET relay == ConfigOf({"039173"},
                          << Rule("Warnings", "Relay", << Exact(<< "T", "O", "R" >>) >>) >>,
                          TRUE)
        quiet == ConfigOf({}, << >>, FALSE)
    IN  { [valid |-> TRUE, config |-> relay],
          [valid |-> TRUE, config |-> quiet],
          [valid |-> FALSE, config |-> relay] }

InitReload == Init /\ watched_fips = {} /\ filters = << >> /\ ~should_relay
                   /\ hist.keep = "reload"

NextReload ==
    \/ TouchSignal
    \/ \E document \in Documents : WriteDocument(document)
    \/ ReloadPoll
    \/ MgrReload
    \/ AudioReload

\* the poller's interval fires every second and the handler is always
\* scheduled again
FairReload == WF_vars(ReloadPoll)

SpecReload == InitReload /\ [][NextReload]_vars /\ FairReload

\* C24: a reload that cannot read or parse the configuration file changes no
\* component's configuration and no filter list and broadcasts nothing, and
\* a modification of the signal file later than the last one seen is
\* followed by a new attempt.
C24_FailedReloadKeepsAll ==
    /\ [][ (ShouldReload(reload) /\ ~reload.document.valid /\ hist'.reloads # hist.reloads)
            => /\ filters' = filters
               /\ watched_fips' = watched_fips
               /\ should_relay' = should_relay
               /\ reload'.audio_config = reload.audio_config
               /\ reload'.mgr_rx = reload.mgr_rx
               /\ reload'.audio_rx = reload.audio_rx ]_vars
    /\ \A m \in 1 .. MaxTouch :
          (reload.signal = m /\ reload.last_seen < m) ~> (reload.last_seen >= m)

\* a reload failed, the signal file was modified again and the attempt that
\* followed installed the filter list of the rewritten file
C24_Witness ==
    /\ Len(hist.reloads) >= 2
    /\ hist.reloads[Len(hist.reloads) - 1] = "failed"
    /\ hist.reloads[Len(hist.reloads)] = "ok"
    /\ filters = reload.document.config.filters
    /\ filters # << >>

(* ------------------------------------------------------------------------ *)
(* Two streams, the manager and the handlers as in SpecStreams, with the    *)
(* order of the SAME messages of each stream kept.                           *)
(* ------------------------------------------------------------------------ *)

InitNnnn == Init /\ watched_fips = {} /\ filters = << >> /\ ~should_relay
                 /\ hist.keep = "nnnn"

SpecNnnn == InitNnnn /\ [][NextStreams]_vars

(* --------------------- the pretty-printer's failure --------------------- *)

\* C27: when the pretty-printer fails the alert is processed with the fields
\* the SAME receiver parsed from the header, its FIPS list among them: the
\* relevance decision is the one the header's FIPS list gives against the
\* watched set, as it is on success.
C27_FallbackDecidesAlike ==
    (hist.decision.raw_header # NoHeader /\ ~hist.decision.dsame_ok) =>
        (hist.decision.relevant <=>
            IsAlertRelevant(HeaderFips(hist.decision.raw_header), hist.decision.watched))

(* ------------------------------------------------------------------------ *)
(* One alert from its StartOfMessage to its dispatch, with a recording      *)
(* directory that cannot be made and a writer whose file operations fail.    *)
(* ------------------------------------------------------------------------ *)

NextIo ==
    \/ Tick(MaxTime)
    \/ Connect("s1")
    \/ \E msg \in DispatchMessages :
          /\ msg.kind = "som" => hist.som_count < MaxSomLive
          /\ ProcessChunk("s1", FALSE, 2048, msg, TRUE)
    \/ MgrRecv(TRUE)
    \/ MgrInsert
    \/ \E i \in DOMAIN handlers, ok \in BOOLEAN : HandlerStart(i, ok)
    \/ \E i \in DOMAIN handlers : HandlerTimeout(i)
    \/ \E i \in DOMAIN handlers : HandlerNnnn(i)
    \/ \E i \in DOMAIN handlers : HandlerStop(i)
    \/ \E i \in DOMAIN handlers : HandlerDispatch(i)
    \/ \E i \in DOMAIN handlers : HandlerRelay(i)
    \/ \E w \in writers : WriterFinish(w.path)
    \/ \E w \in writers : WriterFail(w.path)

SpecIo == InitDispatch /\ [][NextIo]_vars

\* C28: when the recording of an alert fails with an I/O error (the directory
\* or the file cannot be made, or a write fails) the alert is dispatched all
\* the same and no recording path is passed on: what a handler whose
\* recording did not start, or whose writer returned an error, has sent to
\* the notification and to the relay names no file.
C28_FailedRecordingNotPassedOn ==
    ( \/ hist.done.raw_header # NoHeader /\ hist.done.join = NoPath
      \/ \E w \in writers : w.path = hist.done.join /\ w.st = "failed" )
    => \A k \in DOMAIN hist.done.sent : hist.done.sent[k].path = NoPath

(* ------------------------------------------------------------------------ *)
(* Two streams and the manager, whose pretty-printer exits or does not; the *)
(* handlers are followed into their wait.                                    *)
(* ------------------------------------------------------------------------ *)

NextHang ==
    \/ \E s \in Streams : Connect(s)
    \/ \E s \in Streams :
          /\ hist.som_count < MaxSomRec
          /\ ProcessChunk(s, FALSE, 2048, [kind |-> "som", header |-> H_TOR], TRUE)
    \/ \E s \in Streams : ProcessChunk(s, FALSE, 2048, NoMsg, TRUE)
    \/ MgrRecv(TRUE)
    \/ MgrRecvHang
    \/ MgrInsert
    \/ \E i \in DOMAIN handlers : HandlerStart(i, TRUE)
    \/ \E i \in DOMAIN handlers : HandlerDispatch(i)

\* tokio runs the manager when it is ready, and a subprocess that exits is
\* waited for no longer
FairHang ==
    /\ WF_vars(MgrRecv(TRUE) \/ MgrRecvHang)
    /\ WF_vars(MgrInsert)

SpecHang == InitRec /\ [][NextHang]_vars /\ FairHang

\* C29: a pretty-printer that never exits holds its alert up for a bounded
\* time only: an alert tuple waiting in the queue, whichever stream sent it,
\* is eventually taken by the manager, and the manager is eventually back
\* from the subprocess.
C29_HungPrinterBounded ==
    /\ (alert_q # << >>) ~> (alert_q = << >>)
    /\ (mgr.pc = "dsame") ~> (mgr.pc # "dsame")

(* ------------------------------------------------------------------------ *)
(* One stream with tone hits and silence: the tone recording, its timer,    *)
(* its writer and the dispatch of its task, for every filter list.           *)
(* ------------------------------------------------------------------------ *)

NextToneOut ==
    \/ Tick(MaxTime)
    \/ Connect("s1")
    \/ \E tone_hit \in BOOLEAN : ProcessChunk("s1", tone_hit, 120000, NoMsg, TRUE)
    \/ \E tm \in tone_timers : ToneTimerFire(tm)
    \/ \E w \in writers : WriterFinish(w.path)
    \/ \E tm \in tone_timers : ToneDispatch(tm)

SpecToneOut == InitDispatch /\ [][NextToneOut]_vars

\* C30: a tone recording is dispatched as a `??W` alert through the filter
\* decision a SAME alert goes through: when the first rule matching `??W`
\* has action Ignore neither a notification nor a relay is sent for it, and a
\* relay only where a SAME alert would be relayed.
C30_ToneThroughFilter ==
    hist.tone_done # NoDispatch =>
        /\ ActionFor("??W") = "Ignore" => hist.tone_done.sent = << >>
        /\ Count(hist.tone_done.sent, "relay") > 0
              => should_relay /\ ActionFor("??W") \in {"Relay", "none"}

(* ----------------------------- the writer ------------------------------ *)

\* C25: a handler that started a recording leaves its wait only on an
\* EndOfMessage of its own stream or at its 300 s deadline, and sends its
\* notifications and goes on to the relay only when its RecordingState is
\* removed and its writer has returned: nothing is dispatched for the alert
\* while its writer is running.
C25_DispatchAfterWriter ==
    [][ \A i \in DOMAIN handlers :
          LET h     == handlers[i]
              gone  == /\ Len(handlers') = Len(handlers) - 1
                       /\ \A k \in 1 .. Len(handlers') :
                             handlers'[k] = IF k < i THEN handlers[k] ELSE handlers[k + 1]
              moved == /\ Len(handlers') = Len(handlers)
                       /\ handlers'[i].pc # h.pc
          IN  /\ (h.pc = "wait" /\ moved)
                 => \/ now >= h.deadline
                    \/ h.nnnn # << >> /\ Head(h.nnnn) = h.stream
              /\ (h.pc = "dispatch" /\ h.join # NoPath /\ (moved \/ gone))
                 => /\ ~Registered(h.join)
                    /\ \A w \in writers : w.path = h.join => w.st # "open" ]_vars

\* a handler that had started a recording has sent a notification with the
\* recording, whose writer has finalized the file
C25_Witness ==
    /\ hist.done.join # NoPath
    /\ hist.done.sent # << >>
    /\ hist.done.sent[1].path = hist.done.join
    /\ Finalized(hist.done.join)

\* C26: an EndOfMessage decoded on a stream after the StartOfMessage that
\* opened a SAME recording on it ends that recording, however late the
\* manager took the StartOfMessage and whatever other streams sent: no
\* handler leaves its wait by the 300 s timeout when an EndOfMessage of its
\* stream has been decoded since its StartOfMessage.
C26_EomEndsRecording ==
    [][ \A i \in DOMAIN handlers :
          ( /\ handlers[i].pc = "wait"
            /\ Len(handlers') = Len(handlers)
            /\ handlers'[i].pc = "stop"
            /\ ~(handlers[i].nnnn # << >> /\ Head(handlers[i].nnnn) = handlers[i].stream) )
          => hist.same_seq[handlers[i].stream] # "eom" ]_vars

(* Two streams with a tone each: tone hits on both decoders and the tone   *)
(* timers, without SAME messages.                                          *)
InitPeers == Init /\ watched_fips = {} /\ filters = << >> /\ ~should_relay
                  /\ hist.keep = "peers"

NextPeers ==
    \/ Tick(MaxTime)
    \/ \E s \in Streams : Connect(s)
    \/ \E s \in Streams : ProcessChunk(s, TRUE, 120000, NoMsg, TRUE)
    \/ \E tm \in tone_timers : ToneTimerFire(tm)

SpecPeers == InitPeers /\ [][NextPeers]_vars

(* The tone detector on its own: one detector is given chunks that are    *)
(* empty, tone hits or neither, in any order, in runs of up to MaxHitRun   *)
(* hits.                                                                   *)
\* the last n elements of a sequence
LastN(seq, n) == IF Len(seq) <= n THEN seq ELSE SubSeq(seq, Len(seq) - n + 1, Len(seq))

\* one call tone_detector.detect(&samples) of the decoder of s1: the chunk
\* has len samples and, if it is not empty, its Goertzel test passes or not
DetectCall(tone_hit, len) ==
    /\ LET hit  == tone_hit /\ len # 0
           hits == DetectHits(dec["s1"].consecutive_hits, tone_hit, len)
       IN  /\ hit => hist.run < MaxHitRun
           /\ dec' = [dec EXCEPT !["s1"].consecutive_hits = hits]
           /\ hist' = [hist EXCEPT
                         !.window = LastN(Append(@, hit), CONSECUTIVE_HITS_REQUIRED),
                         !.armed  = Armed(hits),
                         !.run    = IF hit THEN @ + 1 ELSE 0 ]
    /\ UNCHANGED << now, watched_fips, sleep_until, reload, filters, should_relay, writers,
                    alert_q, mgr, active_alerts, severe_day, rainy_day, next_sweep,
                    recording_state, handlers, tone_timers, conn,
                    fetchers, byte_q, monitoring, app_lock, stream_urls >>

InitDetect == Init /\ watched_fips = {} /\ filters = << >> /\ ~should_relay
                   /\ hist.keep = "detect"

NextDetect == \E tone_hit \in BOOLEAN, len \in {0, 2048} : DetectCall(tone_hit, len)

SpecDetect == InitDetect /\ [][NextDetect]_vars

\* C32: after a chunk the detector reports armed exactly when that chunk and
\* the 7 chunks before it were all tone hits; a chunk that is no hit, or is
\* empty, leaves the hit counter at 0; and the detector stays armed however
\* long the run of hits is.
C32_ArmedIffEightHits ==
    hist.window # << >> =>
       /\ hist.armed <=> /\ Len(hist.window) = CONSECUTIVE_HITS_REQUIRED
                         /\ \A i \in DOMAIN hist.window : hist.window[i]
       /\ ~hist.window[Len(hist.window)] => dec["s1"].consecutive_hits = 0

\* a run of more than 255 hits, the detector armed at its end
C32_Witness ==
    /\ hist.run > U8_MAX
    /\ hist.armed
    /\ dec["s1"].consecutive_hits = U8_MAX

(* The byte channel of one connection: the fetcher reads up to MaxFetch     *)
(* chunks from its socket and the decoder takes them at any pace.          *)
InitFetch == Init /\ watched_fips = {} /\ filters = << >> /\ ~should_relay
                  /\ hist.keep = "fetch"

NextFetch ==
    \/ Connect("s1")
    \/ FetchChunk("s1")
    \/ FetcherEnds("s1")
    \/ ChannelRead("s1")

SpecFetch == InitFetch /\ [][NextFetch]_vars

\* C33: the fetcher never waits for the byte queue (with the queue full it
\* can take its next chunk from the socket, the chunk is dropped and the
\* fetcher runs on), the queue never holds more than 256 chunks, and the
\* chunks the decoder receives are, in their order, among those the fetcher
\* has read.
C33_FetcherNeverWaits ==
    /\ [](\A s \in Streams :
            /\ Len(byte_q[s]) <= BYTE_QUEUE_CAPACITY
            /\ (fetchers[s].cur /\ hist.fetched[s] < MaxFetch) => ENABLED FetchChunk(s))
    /\ [][\A s \in Streams :
            /\ (hist'.fetched[s] # hist.fetched[s] /\ Len(byte_q[s]) = BYTE_QUEUE_CAPACITY)
                  => (byte_q'[s] = byte_q[s] /\ fetchers'[s].cur)
            /\ hist'.last_recv[s] # hist.last_recv[s]
                  => /\ hist'.last_recv[s] > hist.last_recv[s]
                     /\ hist'.last_recv[s] <= hist.fetched[s]]_vars

\* a chunk was dropped at the full queue, the decoder took a chunk, and a
\* chunk that was read after the dropped one is in the queue, full again
C33_Witness ==
    /\ hist.dropped
    /\ Len(byte_q["s1"]) = BYTE_QUEUE_CAPACITY
    /\ byte_q["s1"][BYTE_QUEUE_CAPACITY] > BYTE_QUEUE_CAPACITY + 1
    /\ hist.last_recv["s1"] >= 1
    /\ fetchers["s1"].cur

(* The recording channel of one tone recording: tone hits start the        *)
(* recording, further chunks are offered to its channel, and its writer    *)
(* keeps pace, is held up by the disk, or fails, all within the 120 s of   *)
(* the recording.                                                          *)
InitChan == Init /\ watched_fips = {} /\ filters = << >> /\ ~should_relay
                 /\ hist.keep = "chan"

NextChan ==
    \/ Connect("s1")
    \/ \E hit \in BOOLEAN : ProcessChunk("s1", hit, 120000, NoMsg, TRUE)
    \/ \E w \in writers : WriterHeld(w.path)
    \/ \E w \in writers : WriterTake(w.path)
    \/ \E w \in writers : WriterFail(w.path)

SpecChan == InitChan /\ [][NextChan]_vars

\* C34: the decoder offers each chunk to the active recording of its stream
\* without waiting: a chunk that finds the 32-slot channel full or closed
\* is dropped (the writer and its channel are as they were), the channel
\* never holds more than 32 chunks, and whatever the state of the recorder a
\* connected decoder can process its next chunk.
C34_DecoderNeverWaits ==
    /\ [](/\ \A w \in writers : Len(w.chan) <= RECORDING_CHANNEL_CAPACITY
          /\ \A s \in Streams :
                conn[s] = "up" => ENABLED ProcessChunk(s, FALSE, 2048, NoMsg, TRUE))
    /\ [][\A s \in Streams :
            hist'.tick[s] # hist.tick[s] =>
               \A w \in writers :
                  ( /\ w.path \in AudioTargets(recording_state, s)
                    /\ TrySendResult(writers, w.path) \in {"full", "closed"} )
                  => w \in writers']_vars

\* a chunk has found the channel full behind a held writer, and the decoder
\* has gone on: the chunk reset its hit counter
C34_Witness ==
    /\ hist.try_send["s1"] = {"full"}
    /\ \E w \in writers : w.held /\ Len(w.chan) = RECORDING_CHANNEL_CAPACITY
    /\ dec["s1"].consecutive_hits = 0

(* One alert and configuration reloads: a SAME message is decoded, handled *)
(* and dispatched while the configuration file is rewritten and the reload *)
(* signal touched.                                                         *)
InitSnap == Init /\ watched_fips = {} /\ filters # << >> /\ should_relay
                 /\ hist.keep = "snap"

NextSnap ==
    \/ Connect("s1")
    \/ \E msg \in DispatchMessages :
          /\ msg.kind = "som" => hist.som_count < MaxSomLive
          /\ ProcessChunk("s1", FALSE, 2048, msg, TRUE)
    \/ MgrRecv(TRUE)
    \/ MgrInsert
    \/ \E i \in DOMAIN handlers : HandlerStart(i, TRUE)
    \/ \E i \in DOMAIN handlers : HandlerNnnn(i)
    \/ \E i \in DOMAIN handlers : HandlerStop(i)
    \/ \E i \in DOMAIN handlers : HandlerDispatch(i)
    \/ \E i \in DOMAIN handlers : HandlerRelay(i)
    \/ \E w \in writers : WriterFinish(w.path)
    \/ TouchSignal
    \/ \E document \in Documents : WriteDocument(document)
    \/ ReloadPoll
    \/ MgrReload
    \/ AudioReload

SpecSnap == InitSnap /\ [][NextSnap]_vars

\* C35 as stated: the decisions taken for one alert are taken against one
\* filter list: the list the notification decision read is the list the
\* relay decision is given.
C35_OneSnapshotPerAlert ==
    (hist.notify_filters.taken /\ hist.relay_filters.taken)
       => hist.notify_filters.filters = hist.relay_filters.filters

(* The flag files step by step: StartOfMessage events of both streams and  *)
(* the alert manager, whose critical section is followed from one await to *)
(* the next.                                                               *)
NextFiles ==
    \/ \E s \in Streams : Connect(s)
    \/ \E in \in AlertSoms : ProcessChunk(in[1], FALSE, 2048, in[2], TRUE)
    \/ \E ok \in BOOLEAN : MgrRecv(ok)
    \/ MgrInsertLock
    \/ MgrFilesWrite
    \/ MgrFilesRemove

SpecFiles == InitAlerts /\ [][NextFiles]_vars

\* C36 as stated: at no moment do severe_day.txt and rainy_day.txt both
\* exist.
C36_NeverBothFlags == ~(severe_day /\ rainy_day)

\* C37 as stated: no task holds the lock of the active-alert set while it
\* awaits a file operation.
C37_NoLockAcrossIo == ~(app_lock = "manager" /\ mgr.pc \in {"write", "remove"})

\* C38: a RecordingState leaves the registry only by the hand of the task
\* that registered it: the SAME handler that started it, as it stops, or the
\* tone task spawned with it, as its 120 s have passed.
C38_OnlyOwnRecordingRemoved ==
    [][\A r \in recording_state \ recording_state' :
          \/ \E i \in DOMAIN handlers :
                /\ handlers[i].pc = "stop"
                /\ handlers[i].stream = r.source_stream
                /\ handlers[i].join = r.output_path
                /\ handlers'[i].pc = "dispatch"
                /\ handlers'[i].recorded = r.output_path
          \/ \E tm \in tone_timers :
                /\ tm.pc = "sleep"
                /\ tm.stream = r.source_stream
                /\ tm.output_path = r.output_path
                /\ tm \notin tone_timers']_vars

\* a handler has removed its own recording while a tone task of the same
\* stream was still to wake, and the tone task's recording went before
C38_Witness ==
    /\ \E i \in DOMAIN handlers :
          /\ handlers[i].pc = "dispatch"
          /\ handlers[i].recorded # NoPath
          /\ handlers[i].recorded = handlers[i].join
    /\ \E tm \in tone_timers : tm.pc = "join"
    /\ recording_state = {}

(* The same header on two streams whose URLs end in the same mount: the   *)
(* manager, the handlers and the writer tasks, which make their files as   *)
(* they are polled.                                                        *)
AlikeMounts == [s \in Streams |-> IF s = "s1" THEN UrlOne ELSE UrlTwoAlike]

InitPaths == InitFrom({<< >>}, {AlikeMounts}) /\ watched_fips = {} /\ ~should_relay
                                              /\ hist.keep = "none"

NextPaths ==
    \/ TickSecond(MaxTimeConn)
    \/ \E s \in Streams : Connect(s)
    \/ \E s \in Streams :
          /\ hist.som_count < MaxSomRec
          /\ ProcessChunk(s, FALSE, 2048, [kind |-> "som", header |-> H_TOR], TRUE)
    \/ MgrRecv(TRUE)
    \/ MgrInsert
    \/ \E i \in DOMAIN handlers, created \in BOOLEAN : HandlerStartAt(i, TRUE, created)
    \/ \E w \in writers : WriterCreate(w.path)
    \/ \E w \in writers : WriterTake(w.path)

SpecPaths == InitPaths /\ [][NextPaths]_vars

\* C39 as stated: two recordings that are registered at the same time never
\* have the same output file.
C39_OwnFilePerRecording ==
    \A r1, r2 \in recording_state : r1 # r2 => r1.output_path # r2.output_path

(* The tasks of the streams' connections: the decoder gives up or its     *)
(* fetcher ends, the stream task sleeps and connects again, and the        *)
(* fetchers of earlier connections end when their sockets say so.          *)
NextOrphans ==
    \/ TickSecond(MaxTimeConn)
    \/ \E s \in Streams : Connect(s)
    \/ \E s \in Streams : Disconnect(s)
    \/ \E s \in Streams : BackoffEnds(s, 1)
    \/ \E s \in Streams : FetcherEnds(s)
    \/ \E s \in Streams : OldFetcherChunk(s)
    \/ \E s \in Streams : OldFetcherEnds(s)

SpecOrphans == InitRec /\ [][NextOrphans]_vars

\* the fetcher tasks of a stream that run
AliveFetchers(s) == (IF fetchers[s].cur THEN 1 ELSE 0) + fetchers[s].old

\* C40 as stated: a stream has at most one fetcher task alive at any time,
\* and the end of a fetcher of an earlier connection never marks a stream
\* disconnected whose present connection is up.
C40_OneFetcherPerStream ==
    /\ [](\A s \in Streams : AliveFetchers(s) <= 1)
    /\ [][\A s \in Streams :
            (conn[s] = "up" /\ conn'[s] = "up" /\ fetchers'[s].old < fetchers[s].old)
               => monitoring'[s] = monitoring[s]]_vars

\* C31 as stated: a RecordingState registered for one stream never keeps a
\* recording from starting on another stream (a tone edge on a stream that
\* has no recording of its own starts one whenever the writer can be
\* started), and no chunk of a stream goes to a recording of another stream.
C31_PeerNeverBlocks ==
    /\ \A s \in Streams : ~hist.peer_block[s]
    /\ ~hist.crossed

\* C21: a writer that had taken no body sample from its channel when the
\* channel closed has removed its file once it has finalized it, and a
\* writer that had taken at least one has left its file in place.
C21_EmptyRecordingDeleted ==
    \A w \in writers : w.st = "done" => (w.file <=> w.body # 0)

====
